---- MODULE Spec2Model ----
(***************************************************************************)
(* A model of mdto.py: the MDTO record classes, their to_xml() methods,    *)
(* from_file(), create_bestand() and the module-level warn-or-exit mode.   *)
(*                                                                         *)
(* Python values are tagged records, so that a field can hold None, a      *)
(* string, an integer, a list or an object, as it can in the source.       *)
(* Text is a sequence of one-character strings.                            *)
(***************************************************************************)
EXTENDS Integers, Sequences, FiniteSets, TLC

VARIABLES
    _force,     \* module global _force
    _quiet,     \* module global _quiet
    obj,        \* the record the caller holds (None when there is none)
    src,        \* how obj came to be: the document parsed, or the constructor call
    out,        \* result of the last to_xml() call on obj
    res,        \* outcome of the last operation
    handles,    \* file handles currently open
    edits       \* number of attribute assignments made on obj

vars == <<_force, _quiet, obj, src, out, res, handles, edits>>

----------------------------------------------------------------------------
(* Python values *)

None == [t |-> "None"]
Str(s) == [t |-> "str", s |-> s]
PyInt(n) == [t |-> "int", n |-> n]
List(xs) == [t |-> "list", items |-> xs]
Obj(c, fields) == [t |-> "obj", cls |-> c, f |-> fields]
\* the class attribute a dataclass picks up as default of a property-backed field
Property == [t |-> "property"]

IsNone(v) == v.t = "None"
IsStr(v) == v.t = "str"
IsList(v) == v.t = "list"
isinstance(v, c) == v.t = "obj" /\ v.cls = c

\* truth value of a Python value, as tested by `if self.x:`
Truthy(v) ==
    CASE v.t = "None" -> FALSE
      [] v.t = "str" -> Len(v.s) > 0
      [] v.t = "list" -> Len(v.items) > 0
      [] v.t = "int" -> v.n # 0
      [] OTHER -> TRUE

(* Outcome of a call: a value, or the exception that ended it; log counts  *)
(* the lines the call printed to stderr.                                   *)
Ok(v) == [ok |-> TRUE, val |-> v, log |-> 0]
Err(e) == [ok |-> FALSE, err |-> e, log |-> 0]
WithLog(r, n) == [r EXCEPT !.log = @ + n]

Min(S) == CHOOSE x \in S : \A y \in S : x <= y

RECURSIVE Flatten(_)
Flatten(ss) == IF Len(ss) = 0 THEN <<>> ELSE Head(ss) \o Flatten(Tail(ss))

RECURSIVE SumLog(_, _)
SumLog(rs, n) == IF n = 0 THEN 0 ELSE rs[n].log + SumLog(rs, n - 1)

\* index of the first failed step, Len + 1 when none failed
FirstFail(rs) ==
    LET bad == {i \in 1..Len(rs) : ~rs[i].ok}
    IN IF bad = {} THEN Len(rs) + 1 ELSE Min(bad)

(* Statements run in sequence, each yielding a sequence of items: the      *)
(* first exception ends the run, else the items are concatenated. (A       *)
(* CHOOSE from a one-element set names a value that is computed once.)     *)
SequenceOf(rs) ==
    CHOOSE r \in { IF k > Len(rs)
                   THEN WithLog(Ok(Flatten([i \in 1..Len(rs) |-> rs[i].val])),
                                SumLog(rs, Len(rs)))
                   ELSE WithLog(Err(rs[k].err), SumLog(rs, k))
                   : k \in {FirstFail(rs)} } : TRUE

Sequence(rs) == CHOOSE r \in {SequenceOf(done) : done \in {rs}} : TRUE

----------------------------------------------------------------------------
(* XML elements (lxml) *)

MDTO_NS == "https://www.nationaalarchief.nl/mdto"
NoNs == ""

Tag(ns, local) == [ns |-> ns, local |-> local]
Elem(tag, text, kids) == [tag |-> tag, text |-> text, kids |-> kids]

\* ET.Element(name) / ET.SubElement(parent, name): a tag without namespace
Element(name, text, kids) == Elem(Tag(NoNs, name), text, kids)

\* child.tag.removeprefix("{https://www.nationaalarchief.nl/mdto}")
removeprefix(tag) ==
    IF tag.ns = MDTO_NS \/ tag.ns = NoNs THEN tag.local
    ELSE "{" \o tag.ns \o "}" \o tag.local

\* elem = ET.SubElement(root, name); elem.text = v
SubElementText(name, v) ==
    IF IsNone(v) \/ IsStr(v) THEN Ok(<<Element(name, v, <<>>)>>)
    ELSE Err("TypeError")

\* wraps the children built by a to_xml body into its root element
Rooted(name, r) ==
    CHOOSE y \in { IF x.ok THEN [x EXCEPT !.val = Element(name, None, x.val)] ELSE x
                   : x \in {r} } : TRUE

\* root.append(e) for the result e of a nested to_xml call
AppendChild(r) ==
    CHOOSE y \in {IF x.ok THEN [x EXCEPT !.val = <<x.val>>] ELSE x : x \in {r}} : TRUE

\* `if self.x is not None:` in place of `if self.x:`: a fault to test C28 against
IfTruthy_NotNone(v, step) == IF IsNone(v) THEN Ok(<<>>) ELSE step

\* `if v: step`
IfTruthy(v, step) == IF Truthy(v) THEN step ELSE Ok(<<>>)

----------------------------------------------------------------------------
(* to_xml of the nested record classes *)

RECURSIVE to_xml(_, _)

IdentificatieGegevens_to_xml(self, root) ==
    Rooted(root, Sequence(<<
        SubElementText("identificatieKenmerk", self.f.identificatieKenmerk),
        SubElementText("identificatieBron", self.f.identificatieBron)
    >>))

VerwijzingGegevens_to_xml(self, root) ==
    Rooted(root, Sequence(<<
        SubElementText("verwijzingNaam", self.f.verwijzingNaam),
        IfTruthy(self.f.verwijzingIdentificatie,
            AppendChild(to_xml(self.f.verwijzingIdentificatie, <<"verwijzingIdentificatie">>)))
    >>))

BegripGegevens_to_xml(self, root) ==
    Rooted(root, Sequence(<<
        SubElementText("begripLabel", self.f.begripLabel),
        IfTruthy(self.f.begripCode, SubElementText("begripCode", self.f.begripCode)),
        AppendChild(to_xml(self.f.begripBegrippenlijst, <<"begripBegrippenlijst">>))
    >>))

TermijnGegevens_to_xml(self, root) ==
    Rooted(root, Sequence(<<
        IfTruthy(self.f.termijnTriggerStartLooptijd,
            AppendChild(to_xml(self.f.termijnTriggerStartLooptijd, <<"termijnTriggerStartLooptijd">>))),
        IfTruthy(self.f.termijnStartdatumLooptijd,
            SubElementText("termijnStartdatumLooptijd", self.f.termijnStartdatumLooptijd)),
        IfTruthy(self.f.termijnLooptijd,
            SubElementText("termijnLooptijd", self.f.termijnLooptijd)),
        IfTruthy(self.f.termijnEinddatum,
            SubElementText("termijnEinddatum", self.f.termijnEinddatum))
    >>))

ChecksumGegevens_to_xml(self) ==
    Rooted("checksum", Sequence(<<
        AppendChild(to_xml(self.f.checksumAlgoritme, <<"checksumAlgoritme">>)),
        SubElementText("checksumWaarde", self.f.checksumWaarde),
        SubElementText("checksumDatum", self.f.checksumDatum)
    >>))

BeperkingGebruikGegevens_to_xml(self) ==
    Rooted("beperkingGebruik", Sequence(<<
        AppendChild(to_xml(self.f.beperkingGebruikType, <<"beperkingGebruikType">>)),
        IfTruthy(self.f.beperkingGebruikNadereBeschrijving,
            SubElementText("beperkingGebruikNadereBeschrijving",
                           self.f.beperkingGebruikNadereBeschrijving)),
        IfTruthy(self.f.beperkingGebruikDocumentatie,
            AppendChild(to_xml(self.f.beperkingGebruikDocumentatie, <<"beperkingGebruikDocumentatie">>))),
        IfTruthy(self.f.beperkingGebruikTermijn,
            AppendChild(to_xml(self.f.beperkingGebruikTermijn, <<"beperkingGebruikTermijn">>)))
    >>))

DekkingInTijdGegevens_to_xml(self) ==
    Rooted("dekkingInTijd", Sequence(<<
        AppendChild(to_xml(self.f.dekkingInTijdType, <<"dekkingInTijdType">>)),
        SubElementText("dekkingInTijdBegindatum", self.f.dekkingInTijdBegindatum),
        IfTruthy(self.f.dekkingInTijdEinddatum,
            SubElementText("dekkingInTijdEinddatum", self.f.dekkingInTijdEinddatum))
    >>))

EventGegevens_to_xml(self) ==
    Rooted("event", Sequence(<<
        AppendChild(to_xml(self.f.eventType, <<"eventType">>)),
        IfTruthy(self.f.eventTijd, SubElementText("eventTijd", self.f.eventTijd)),
        IfTruthy(self.f.eventVerantwoordelijkeActor,
            AppendChild(to_xml(self.f.eventVerantwoordelijkeActor, <<"eventVerantwoordelijkeActor">>))),
        IfTruthy(self.f.eventResultaat,
            SubElementText("eventResultaat", self.f.eventResultaat))
    >>))

RaadpleeglocatieGegevens_to_xml(self) ==
    Rooted("raadpleeglocatie", Sequence(<<
        IfTruthy(self.f.raadpleeglocatieFysiek,
            AppendChild(to_xml(self.f.raadpleeglocatieFysiek, <<"raadpleeglocatieFysiek">>))),
        IfTruthy(self.f.raadpleeglocatieOnline,
            SubElementText("raadpleeglocatieOnline", self.f.raadpleeglocatieOnline))
    >>))

GerelateerdInformatieobjectGegevens_to_xml(self) ==
    Rooted("gerelateerdInformatieobject", Sequence(<<
        AppendChild(to_xml(self.f.gerelateerdInformatieobjectVerwijzing,
                      <<"gerelateerdInformatieobjectVerwijzing">>)),
        AppendChild(to_xml(self.f.gerelateerdInformatieobjectTypeRelatie,
                      <<"gerelateerdInformatieobjectTypeRelatie">>))
    >>))

BetrokkeneGegevens_to_xml(self) ==
    Rooted("betrokkene", Sequence(<<
        AppendChild(to_xml(self.f.betrokkeneTypeRelatie, <<"betrokkeneTypeRelatie">>)),
        AppendChild(to_xml(self.f.betrokkeneActor, <<"betrokkeneActor">>))
    >>))

\* classes whose to_xml takes the name of the root tag
RootedClasses ==
    {"IdentificatieGegevens", "VerwijzingGegevens", "BegripGegevens", "TermijnGegevens"}

(* v.to_xml(args) for whatever value v the field holds: a value without    *)
(* the method raises AttributeError, a wrong number of arguments TypeError.*)
to_xml(v, args) ==
    IF v.t # "obj" THEN Err("AttributeError")
    ELSE IF v.cls \in RootedClasses /\ Len(args) # 1 THEN Err("TypeError")
    ELSE IF v.cls \notin RootedClasses /\ Len(args) # 0 THEN Err("TypeError")
    ELSE CASE v.cls = "IdentificatieGegevens" -> IdentificatieGegevens_to_xml(v, args[1])
           [] v.cls = "VerwijzingGegevens" -> VerwijzingGegevens_to_xml(v, args[1])
           [] v.cls = "BegripGegevens" -> BegripGegevens_to_xml(v, args[1])
           [] v.cls = "TermijnGegevens" -> TermijnGegevens_to_xml(v, args[1])
           [] v.cls = "ChecksumGegevens" -> ChecksumGegevens_to_xml(v)
           [] v.cls = "BeperkingGebruikGegevens" -> BeperkingGebruikGegevens_to_xml(v)
           [] v.cls = "DekkingInTijdGegevens" -> DekkingInTijdGegevens_to_xml(v)
           [] v.cls = "EventGegevens" -> EventGegevens_to_xml(v)
           [] v.cls = "RaadpleeglocatieGegevens" -> RaadpleeglocatieGegevens_to_xml(v)
           [] v.cls = "GerelateerdInformatieobjectGegevens" ->
                  GerelateerdInformatieobjectGegevens_to_xml(v)
           [] v.cls = "BetrokkeneGegevens" -> BetrokkeneGegevens_to_xml(v)
           [] OTHER -> Err("AttributeError")

----------------------------------------------------------------------------
(* str() and int() *)

Digits == <<"0", "1", "2", "3", "4", "5", "6", "7", "8", "9">>
DigitVal(c) == (CHOOSE i \in 1..Len(Digits) : Digits[i] = c) - 1
IsDigit(c) == \E i \in 1..Len(Digits) : Digits[i] = c

RECURSIVE DecimalOf(_)
DecimalOf(n) ==
    IF n < Len(Digits) THEN <<Digits[n + 1]>>
    ELSE DecimalOf(n \div Len(Digits)) \o <<Digits[(n % Len(Digits)) + 1]>>

RECURSIVE ValueOf(_)
ValueOf(ds) ==
    IF Len(ds) = 0 THEN 0
    ELSE ValueOf(SubSeq(ds, 1, Len(ds) - 1)) * Len(Digits) + DigitVal(ds[Len(ds)])

\* str(v), as used for omvang
str(v) ==
    CASE v.t = "int" -> IF v.n < 0 THEN <<"-">> \o DecimalOf(-v.n) ELSE DecimalOf(v.n)
      [] v.t = "str" -> v.s
      [] v.t = "None" -> <<"N", "o", "n", "e">>
      [] OTHER -> <<"<", v.t, ">">>

\* int(text): a sign and decimal digits; anything else is a ValueError,
\* and int(None) a TypeError
int(v) ==
    IF ~IsStr(v) THEN Err("TypeError")
    ELSE LET signed == Len(v.s) > 0 /\ v.s[1] \in {"-", "+"}
             ds == IF signed THEN Tail(v.s) ELSE v.s
         IN IF Len(ds) = 0 \/ \E i \in 1..Len(ds) : ~IsDigit(ds[i])
            THEN Err("ValueError")
            ELSE Ok(PyInt(IF signed /\ v.s[1] = "-" THEN -ValueOf(ds) ELSE ValueOf(ds)))

----------------------------------------------------------------------------
(* to_xml of the two top-level records *)

XSI_NS == "http://www.w3.org/2001/XMLSchema-instance"
SCHEMA_LOCATION ==
    "https://www.nationaalarchief.nl/mdto https://www.nationaalarchief.nl/mdto/MDTO-XML1.0.1.xsd"

\* the <MDTO> element with its namespace map and schemaLocation attribute
MDTO(nsmap, schemaLocation, kids) ==
    [tag |-> Tag(NoNs, "MDTO"), nsmap |-> nsmap, schemaLocation |-> schemaLocation,
     text |-> None, kids |-> kids]

\* `for i in v: step(i)`: None and objects are not iterable, a string yields its characters
ForEach(v, step(_)) ==
    IF IsList(v) THEN Sequence([i \in 1..Len(v.items) |-> step(v.items[i])])
    ELSE IF IsStr(v) THEN Sequence([i \in 1..Len(v.s) |-> step(Str(<<v.s[i]>>))])
    ELSE Err("TypeError")

\* the wrap without its isinstance test: a fault to test C26 against
Listify_Always(v, c) == List(<<v>>)

\* `if isinstance(self.x, C): self.x = [self.x]`
Listify(v, c) == IF isinstance(v, c) THEN List(<<v>>) ELSE v
\* `if isinstance(self.trefwoord, str): self.trefwoord = [self.trefwoord]`
ListifyStr(v) == IF IsStr(v) THEN List(<<v>>) ELSE v

\* `for i in self.x: root.append(i.to_xml(args))` after the isinstance wrap
Repeat(v, c, args) ==
    ForEach(Listify(v, c), LAMBDA i : AppendChild(to_xml(i, args)))

\* `if self.x: root.append(self.x.to_xml(args))`
Optional(v, args) == IfTruthy(v, AppendChild(to_xml(v, args)))

\* `if self.x: e = ET.SubElement(root, name); e.text = self.x`
OptionalText(name, v) == IfTruthy(v, SubElementText(name, v))

(* The statements of Informatieobject.to_xml that fill <informatieobject>, *)
(* in the order of the source.                                            *)
Informatieobject_steps(self) ==
    <<  Repeat(self.f.identificatie, "IdentificatieGegevens", <<"identificatie">>),
        SubElementText("naam", self.f.naam),
        Optional(self.f.aggregatieniveau, <<"aggregatieniveau">>),
        Optional(self.f.classificatie, <<"classificatie">>),
        IfTruthy(self.f.trefwoord,
            ForEach(ListifyStr(self.f.trefwoord), LAMBDA t : SubElementText("trefwoord", t))),
        OptionalText("omschrijving", self.f.omschrijving),
        Optional(self.f.raadpleeglocatie, <<>>),
        Optional(self.f.dekkingInTijd, <<>>),
        Optional(self.f.dekkingInRuimte, <<"dekkingInRuimte">>),
        OptionalText("taal", self.f.taal),
        IfTruthy(self.f.event, Repeat(self.f.event, "EventGegevens", <<>>)),
        AppendChild(to_xml(self.f.waardering, <<"waardering">>)),
        Optional(self.f.bewaartermijn, <<"bewaartermijn">>),
        Optional(self.f.informatiecategorie, <<"informatiecategorie">>),
        Optional(self.f.isOnderdeelVan, <<"isOnderdeelVan">>),
        IfTruthy(self.f.bevatOnderdeel,
            Repeat(self.f.bevatOnderdeel, "VerwijzingGegevens", <<"bevatOnderdeel">>)),
        Optional(self.f.heeftRepresentatie, <<"heeftRepresentatie">>),
        IfTruthy(self.f.aanvullendeMetagegevens,
            Repeat(self.f.aanvullendeMetagegevens, "VerwijzingGegevens",
                   <<"aanvullendeMetagegevens">>)),
        Optional(self.f.gerelateerdInformatieobject, <<"gerelateerdInformatieobject">>),
        AppendChild(to_xml(self.f.archiefvormer, <<"archiefvormer">>)),
        IfTruthy(self.f.betrokkene, Repeat(self.f.betrokkene, "BetrokkeneGegevens", <<>>)),
        Optional(self.f.activiteit, <<"activiteit">>),
        Repeat(self.f.beperkingGebruik, "BeperkingGebruikGegevens", <<>>)
    >>

(* The fields Informatieobject.to_xml rewrites as lists, each with the     *)
(* statement that does so and whether that statement sits under `if x:`.   *)
Informatieobject_wraps ==
    <<  [step |-> 1, field |-> "identificatie", cls |-> "IdentificatieGegevens", guarded |-> FALSE],
        [step |-> 5, field |-> "trefwoord", cls |-> "str", guarded |-> TRUE],
        [step |-> 11, field |-> "event", cls |-> "EventGegevens", guarded |-> TRUE],
        [step |-> 16, field |-> "bevatOnderdeel", cls |-> "VerwijzingGegevens", guarded |-> TRUE],
        [step |-> 18, field |-> "aanvullendeMetagegevens", cls |-> "VerwijzingGegevens",
         guarded |-> TRUE],
        [step |-> 21, field |-> "betrokkene", cls |-> "BetrokkeneGegevens", guarded |-> TRUE],
        [step |-> 23, field |-> "beperkingGebruik", cls |-> "BeperkingGebruikGegevens",
         guarded |-> FALSE] >>

\* Bestand_steps with URLBestand written after isRepresentatieVan: a fault to test C3 against
Bestand_steps_URLBestandLast(self) ==
    <<  Repeat(self.f.identificatie, "IdentificatieGegevens", <<"identificatie">>),
        SubElementText("naam", self.f.naam),
        SubElementText("omvang", Str(str(self.f.omvang))),
        Optional(self.f.bestandsformaat, <<"bestandsformaat">>),
        AppendChild(to_xml(self.f.checksum, <<>>)),
        Optional(self.f.isRepresentatieVan, <<"isRepresentatieVan">>),
        OptionalText("URLBestand", self.f.URLBestand)
    >>

Bestand_steps(self) ==
    <<  Repeat(self.f.identificatie, "IdentificatieGegevens", <<"identificatie">>),
        SubElementText("naam", self.f.naam),
        SubElementText("omvang", Str(str(self.f.omvang))),
        Optional(self.f.bestandsformaat, <<"bestandsformaat">>),
        AppendChild(to_xml(self.f.checksum, <<>>)),
        OptionalText("URLBestand", self.f.URLBestand),
        Optional(self.f.isRepresentatieVan, <<"isRepresentatieVan">>)
    >>

Bestand_wraps ==
    <<  [step |-> 1, field |-> "identificatie", cls |-> "IdentificatieGegevens", guarded |-> FALSE] >>

\* to_xml working on a copy of the record: a fault to test C25 against
Wrapped_Nothing(self, wraps, k, n) == self

\* the record after the statements up to and including statement k have run
RECURSIVE Wrapped(_, _, _, _)
Wrapped(self, wraps, k, n) ==
    IF n = 0 THEN self
    ELSE LET w == wraps[n]
             prev == Wrapped(self, wraps, k, n - 1)
             v == self.f[w.field]
             nv == IF w.cls = "str" THEN ListifyStr(v) ELSE Listify(v, w.cls)
         IN IF w.step <= k /\ (~w.guarded \/ Truthy(v))
            THEN [prev EXCEPT !.f[w.field] = nv]
            ELSE prev

\* a top-level to_xml that hangs the fields under <MDTO> itself: a fault to test C20 against
TopLevel_to_xml_NoWrapper(self, name, steps, wraps) ==
    CHOOSE call \in
        { [r |-> IF body.ok
                 THEN [body EXCEPT !.val = MDTO({MDTO_NS, XSI_NS}, SCHEMA_LOCATION, body.val)]
                 ELSE body,
           self |-> self]
          : body \in {Sequence(steps)} } : TRUE

(* A top-level to_xml call: the tree (or the exception), and the record    *)
(* as the call leaves it.                                                  *)
TopLevel_to_xml(self, name, steps, wraps) ==
    CHOOSE call \in
        { [r |-> IF body.ok
                 THEN [body EXCEPT !.val = MDTO({MDTO_NS, XSI_NS}, SCHEMA_LOCATION,
                                               <<Element(name, None, body.val)>>)]
                 ELSE body,
           self |-> Wrapped(self, wraps, FirstFail(done), Len(wraps))]
          : done \in {steps}, body \in {Sequence(steps)} } : TRUE

Informatieobject_to_xml(self) ==
    TopLevel_to_xml(self, "informatieobject", Informatieobject_steps(self), Informatieobject_wraps)

Bestand_to_xml(self) ==
    TopLevel_to_xml(self, "bestand", Bestand_steps(self), Bestand_wraps)

----------------------------------------------------------------------------
(* The warn-or-exit mode *)

MAX_NAAM_LENGTH == 80

\* _log(m): the number of lines printed
_log(quiet) == IF quiet THEN 0 ELSE 1

\* _warn(warning): logs, and exits unless _force
_warn(force, quiet) ==
    WithLog(IF force THEN Ok(None) ELSE Err("SystemExit"), _log(quiet))

\* _error(error): logs and exits
_error(quiet) == WithLog(Err("SystemExit"), _log(quiet))

(* validators.url(value): the external URL validator. A URL is taken to be *)
(* a scheme http:// followed by a non-empty rest without spaces.           *)
HttpScheme == <<"h", "t", "t", "p", ":", "/", "/">>
validators_url(v) ==
    /\ IsStr(v)
    /\ Len(v.s) > Len(HttpScheme)
    /\ SubSeq(v.s, 1, Len(HttpScheme)) = HttpScheme
    /\ \A i \in 1..Len(v.s) : v.s[i] # " "

----------------------------------------------------------------------------
(* Constructors: the dataclass __init__ with every field given *)

\* RaadpleeglocatieGegevens.raadpleeglocatieOnline setter: the value stored, or the exit
raadpleeglocatieOnline_setter(url, force, quiet) ==
    IF url.t = "property" \/ IsNone(url) THEN Ok(None)
    ELSE IF IsList(url) /\ \A i \in 1..Len(url.items) : validators_url(url.items[i]) THEN Ok(url)
    ELSE IF IsStr(url) /\ validators_url(url) THEN Ok(url)
    ELSE LET w == _warn(force, quiet) IN IF w.ok THEN [w EXCEPT !.val = url] ELSE w

\* the URLBestand setter dropping an invalid value after the warning: a fault to test C9
\* against
URLBestand_setter_DropInvalid(url, force, quiet) ==
    IF url.t = "property" \/ IsNone(url) THEN Ok(None)
    ELSE IF validators_url(url) THEN Ok(url)
    ELSE _warn(force, quiet)

\* Bestand.URLBestand setter
URLBestand_setter(url, force, quiet) ==
    IF url.t = "property" \/ IsNone(url) THEN Ok(None)
    ELSE IF validators_url(url) THEN Ok(url)
    ELSE LET w == _warn(force, quiet) IN IF w.ok THEN [w EXCEPT !.val = url] ELSE w

\* len(v): None and integers have no length
len(v) ==
    CASE v.t = "str" -> Ok(Len(v.s))
      [] v.t = "list" -> Ok(Len(v.items))
      [] OTHER -> Err("TypeError")

\* Bestand.__post_init__
Bestand_post_init(self, force, quiet) ==
    LET n == len(self.f.naam)
    IN IF ~n.ok THEN n
       ELSE IF n.val > MAX_NAAM_LENGTH THEN _warn(force, quiet)
       ELSE Ok(None)

\* Bestand(**kwargs): the fields are assigned in order (URLBestand through
\* its setter), then __post_init__ runs
New_Bestand(kwargs, force, quiet) ==
    LET u == URLBestand_setter(kwargs.URLBestand, force, quiet)
    IN IF ~u.ok THEN u
       ELSE LET self == Obj("Bestand", [kwargs EXCEPT !.URLBestand = u.val])
                p == Bestand_post_init(self, force, quiet)
            IN IF ~p.ok THEN WithLog(p, u.log)
               ELSE WithLog(Ok(self), u.log + p.log)

New_RaadpleeglocatieGegevens(kwargs, force, quiet) ==
    LET u == raadpleeglocatieOnline_setter(kwargs.raadpleeglocatieOnline, force, quiet)
    IN IF ~u.ok THEN u
       ELSE WithLog(Ok(Obj("RaadpleeglocatieGegevens",
                           [kwargs EXCEPT !.raadpleeglocatieOnline = u.val])), u.log)

\* mdto_class(**constructor_args)
New(cls, kwargs, force, quiet) ==
    CASE cls = "Bestand" -> New_Bestand(kwargs, force, quiet)
      [] cls = "RaadpleeglocatieGegevens" -> New_RaadpleeglocatieGegevens(kwargs, force, quiet)
      [] OTHER -> Ok(Obj(cls, kwargs))

----------------------------------------------------------------------------
(* from_file *)

parse_text(node) == Ok(node.text)

\* parse_int keeping the text as it is: a fault to test C17 against
parse_int_AsText(node) == Ok(node.text)

parse_int(node) == int(node.text)

parse_identificatie(node) ==
    IF Len(node.kids) < 2 THEN Err("IndexError")
    ELSE Ok(Obj("IdentificatieGegevens",
                [identificatieKenmerk |-> node.kids[1].text,
                 identificatieBron |-> node.kids[2].text]))

\* parse_verwijzing ignoring the identification: a fault to test C6 against
parse_verwijzing_NaamOnly(node) ==
    IF Len(node.kids) = 0 THEN Err("IndexError")
    ELSE Ok(Obj("VerwijzingGegevens",
                [verwijzingNaam |-> node.kids[1].text, verwijzingIdentificatie |-> None]))

parse_verwijzing(node) ==
    IF Len(node.kids) = 1
    THEN Ok(Obj("VerwijzingGegevens",
                [verwijzingNaam |-> node.kids[1].text, verwijzingIdentificatie |-> None]))
    ELSE IF Len(node.kids) = 0 THEN Err("IndexError")
    ELSE LET id == parse_identificatie(node.kids[2])
         IN IF ~id.ok THEN id
            ELSE Ok(Obj("VerwijzingGegevens",
                        [verwijzingNaam |-> node.kids[1].text,
                         verwijzingIdentificatie |-> id.val]))

begrip_parsers ==
    [begripLabel |-> "parse_text", begripCode |-> "parse_text",
     begripBegrippenlijst |-> "parse_verwijzing"]

termijn_parsers ==
    [termijnTriggerStartLooptijd |-> "parse_begrip", termijnStartdatumLooptijd |-> "parse_text",
     termijnLooptijd |-> "parse_text", termijnEinddatum |-> "parse_text"]

beperking_parsers ==
    [beperkingGebruikType |-> "parse_begrip",
     beperkingGebruikNadereBeschrijving |-> "parse_text",
     beperkingGebruikDocumentatie |-> "parse_verwijzing",
     beperkingGebruikTermijn |-> "parse_termijn"]

raadpleeglocatie_parsers ==
    [raadpleeglocatieFysiek |-> "parse_verwijzing", raadpleeglocatieOnline |-> "parse_text"]

dekking_in_tijd_parsers ==
    [dekkingInTijdType |-> "parse_begrip", dekkingInTijdBegindatum |-> "parse_text",
     dekkingInTijdEinddatum |-> "parse_text"]

event_parsers ==
    [eventType |-> "parse_begrip", eventTijd |-> "parse_text",
     eventVerantwoordelijkeActor |-> "parse_verwijzing", eventResultaat |-> "parse_text"]

gerelateerd_informatieobject_parsers ==
    [gerelateerdInformatieobjectVerwijzing |-> "parse_verwijzing",
     gerelateerdInformatieobjectTypeRelatie |-> "parse_begrip"]

betrokkene_parsers ==
    [betrokkeneTypeRelatie |-> "parse_begrip", betrokkeneActor |-> "parse_verwijzing"]

checksum_parsers ==
    [checksumAlgoritme |-> "parse_begrip", checksumWaarde |-> "parse_text",
     checksumDatum |-> "parse_text"]

informatieobject_parsers ==
    [naam |-> "parse_text", identificatie |-> "parse_identificatie",
     aggregatieniveau |-> "parse_begrip", classificatie |-> "parse_begrip",
     trefwoord |-> "parse_text", omschrijving |-> "parse_text",
     raadpleeglocatie |-> "parse_raadpleeglocatie", dekkingInTijd |-> "parse_dekking_in_tijd",
     dekkingInRuimte |-> "parse_verwijzing", taal |-> "parse_text", event |-> "parse_event",
     waardering |-> "parse_begrip", bewaartermijn |-> "parse_termijn",
     informatiecategorie |-> "parse_begrip", isOnderdeelVan |-> "parse_verwijzing",
     bevatOnderdeel |-> "parse_verwijzing", heeftRepresentatie |-> "parse_verwijzing",
     aanvullendeMetagegevens |-> "parse_verwijzing",
     gerelateerdInformatieobject |-> "parse_gerelateerd_informatieobject",
     archiefvormer |-> "parse_verwijzing", betrokkene |-> "parse_betrokkene",
     activiteit |-> "parse_verwijzing", beperkingGebruik |-> "parse_beperking"]

bestand_parsers ==
    [naam |-> "parse_text", identificatie |-> "parse_identificatie", omvang |-> "parse_int",
     checksum |-> "parse_checksum", bestandsformaat |-> "parse_begrip",
     URLBestand |-> "parse_text", isRepresentatieVan |-> "parse_verwijzing"]

\* the collapse leaving a one-item list a list: a fault to test C4 against
Collapse_KeepList(values) ==
    IF Len(values) = 0 THEN None ELSE List(values)

\* the collapse at the end of elem_to_mdto: [] -> None, [v] -> v, longer lists stay
Collapse(values) ==
    IF Len(values) = 0 THEN None
    ELSE IF Len(values) = 1 THEN values[1]
    ELSE List(values)

\* the lookup falling back on parse_text for an unknown tag: a fault to test C5 against
lookup_OrText(mdto_xml_parsers, mdto_field) ==
    IF mdto_field \in DOMAIN mdto_xml_parsers THEN Ok(mdto_xml_parsers[mdto_field])
    ELSE Ok("parse_text")

\* mdto_xml_parsers[mdto_field]: a tag that is no key of the table raises KeyError
lookup(mdto_xml_parsers, mdto_field) ==
    IF mdto_field \in DOMAIN mdto_xml_parsers THEN Ok(mdto_xml_parsers[mdto_field])
    ELSE Err("KeyError")

RECURSIVE xml_parser(_, _, _, _), elem_to_mdto(_, _, _, _, _)

(* elem_to_mdto(elem, mdto_class, mdto_xml_parsers), elem given by its     *)
(* children in document order                                              *)
elem_to_mdto(children, mdto_class, mdto_xml_parsers, force, quiet) ==
    LET n == Len(children)
        mdto_field(i) == removeprefix(children[i].tag)
        parser(i) == lookup(mdto_xml_parsers, mdto_field(i))
        positions(field) == SelectSeq([i \in 1..n |-> i], LAMBDA i : mdto_field(i) = field)
    IN CHOOSE r \in
          { LET k == FirstFail(parsed)
                values(field) ==
                    [j \in 1..Len(positions(field)) |-> parsed[positions(field)[j]].val]
                constructor_args ==
                    [field \in DOMAIN mdto_xml_parsers |-> Collapse(values(field))]
            IN IF k <= n THEN WithLog(Err(parsed[k].err), SumLog(parsed, k))
               ELSE WithLog(New(mdto_class, constructor_args, force, quiet), SumLog(parsed, n))
            : parsed \in
                { [i \in 1..n |->
                     IF ~parser(i).ok THEN parser(i)
                     ELSE xml_parser(parser(i).val, children[i], force, quiet)] } } : TRUE

\* parse_begrip = lambda e: elem_to_mdto(e, BegripGegevens, begrip_parsers), and the
\* other parsers defined that way: the class and the table of each
Composite ==
    [parse_begrip |-> [cls |-> "BegripGegevens", parsers |-> begrip_parsers],
     parse_termijn |-> [cls |-> "TermijnGegevens", parsers |-> termijn_parsers],
     parse_beperking |-> [cls |-> "BeperkingGebruikGegevens", parsers |-> beperking_parsers],
     parse_raadpleeglocatie |->
         [cls |-> "RaadpleeglocatieGegevens", parsers |-> raadpleeglocatie_parsers],
     parse_dekking_in_tijd |->
         [cls |-> "DekkingInTijdGegevens", parsers |-> dekking_in_tijd_parsers],
     parse_event |-> [cls |-> "EventGegevens", parsers |-> event_parsers],
     parse_gerelateerd_informatieobject |->
         [cls |-> "GerelateerdInformatieobjectGegevens",
          parsers |-> gerelateerd_informatieobject_parsers],
     parse_betrokkene |-> [cls |-> "BetrokkeneGegevens", parsers |-> betrokkene_parsers],
     parse_checksum |-> [cls |-> "ChecksumGegevens", parsers |-> checksum_parsers]]

xml_parser(name, node, force, quiet) ==
    CASE name = "parse_text" -> parse_text(node)
      [] name = "parse_int" -> parse_int(node)
      [] name = "parse_identificatie" -> parse_identificatie(node)
      [] name = "parse_verwijzing" -> parse_verwijzing(node)
      [] OTHER -> elem_to_mdto(node.kids, Composite[name].cls, Composite[name].parsers,
                               force, quiet)

\* from_file taking every root child that is no <informatieobject> for a <bestand>: a
\* fault to test C7 against
from_file_NoElse(root, force, quiet) ==
    IF Len(root.kids) = 0 THEN Err("IndexError")
    ELSE IF removeprefix(root.kids[1].tag) = "informatieobject"
    THEN elem_to_mdto(root.kids[1].kids, "Informatieobject", informatieobject_parsers,
                      force, quiet)
    ELSE elem_to_mdto(root.kids[1].kids, "Bestand", bestand_parsers, force, quiet)

(* from_file(xmlfile), for the parsed tree `root` of the file *)
from_file(root, force, quiet) ==
    IF Len(root.kids) = 0 THEN Err("IndexError")
    ELSE LET children == root.kids[1].kids
             object_type == removeprefix(root.kids[1].tag)
         IN IF object_type = "informatieobject"
            THEN elem_to_mdto(children, "Informatieobject", informatieobject_parsers, force, quiet)
            ELSE IF object_type = "bestand"
            THEN elem_to_mdto(children, "Bestand", bestand_parsers, force, quiet)
            ELSE Err("ValueError")

----------------------------------------------------------------------------
(* create_bestand and its helpers. A file argument is a path ("pad"), a    *)
(* path to no file ("ontbreekt"), an open file object ("leesbaar",         *)
(* "schrijfbaar") or a value that is neither ("getal"). A handle is named  *)
(* by the argument it belongs to and by who opened it.                     *)

\* _process_file handing a writable handle back as it is: a fault to test C29 against
_process_file_KeepWritable(file_or_filename, arg, open) ==
    CASE file_or_filename = "pad" ->
             [ok |-> TRUE, handle |-> <<arg, "mdto">>, open |-> open \cup {<<arg, "mdto">>}]
      [] file_or_filename = "ontbreekt" ->
             [ok |-> FALSE, err |-> "FileNotFoundError", open |-> open]
      [] file_or_filename \in {"schrijfbaar", "leesbaar"} ->
             [ok |-> TRUE, handle |-> <<arg, "caller">>, open |-> open]
      [] OTHER -> [ok |-> FALSE, err |-> "TypeError", open |-> open]

\* _process_file(file_or_filename): the handle returned, and the handles open afterwards
_process_file(file_or_filename, arg, open) ==
    CASE file_or_filename = "pad" ->
             [ok |-> TRUE, handle |-> <<arg, "mdto">>, open |-> open \cup {<<arg, "mdto">>}]
      [] file_or_filename = "ontbreekt" ->
             [ok |-> FALSE, err |-> "FileNotFoundError", open |-> open]
      [] file_or_filename = "schrijfbaar" ->
             [ok |-> TRUE, handle |-> <<arg, "mdto">>,
              open |-> (open \ {<<arg, "caller">>}) \cup {<<arg, "mdto">>}]
      [] file_or_filename = "leesbaar" ->
             [ok |-> TRUE, handle |-> <<arg, "caller">>, open |-> open]
      [] OTHER -> [ok |-> FALSE, err |-> "TypeError", open |-> open]

\* the handles the caller holds open when it passes `file` as argument `arg`
CallerHandles(file, arg) ==
    IF file \in {"leesbaar", "schrijfbaar"} THEN {<<arg, "caller">>} ELSE {}

\* the elements below e, in document order
RECURSIVE iter(_)
iter(e) == Flatten([i \in 1..Len(e.kids) |-> <<e.kids[i]>> \o iter(e.kids[i])])

\* the children of every element of es that carry the MDTO name `name`
children(es, name) ==
    Flatten([i \in 1..Len(es) |->
                SelectSeq(es[i].kids, LAMBDA c : c.tag = Tag(MDTO_NS, name))])

\* root.find(".//mdto:informatieobject/mdto:<path>"): the first match, or None
find(root, path) ==
    LET start == SelectSeq(iter(root), LAMBDA c : c.tag = Tag(MDTO_NS, "informatieobject"))
        found == IF Len(path) = 1 THEN children(start, path[1])
                 ELSE children(children(start, path[1]), path[2])
    IN IF Len(found) = 0 THEN None ELSE found[1]

detect_verwijzing(root, quiet) ==
    LET kenmerk == find(root, <<"identificatie", "identificatieKenmerk">>)
        bron == find(root, <<"identificatie", "identificatieBron">>)
        naam == find(root, <<"naam">>)
        id_gegevens ==
            IF ~(kenmerk = None \/ bron = None)
            THEN Obj("IdentificatieGegevens",
                     [identificatieKenmerk |-> kenmerk.text, identificatieBron |-> bron.text])
            ELSE None
    IN IF naam = None THEN _error(quiet)
       ELSE Ok(Obj("VerwijzingGegevens",
                   [verwijzingNaam |-> naam.text, verwijzingIdentificatie |-> id_gegevens]))

PronomRegister ==
    <<"P", "R", "O", "N", "O", "M", "-", "r", "e", "g", "i", "s", "t", "e", "r">>

(* pronominfo(path), by what fido does. fido.answer is "ontbreekt" (not    *)
(* installed), "fout" (exit status not 0), "OK" (one match), "meerdere"    *)
(* (more than one match), "FAIL" (no match) or "leeg" (no match, and a     *)
(* warning about an empty file on stderr); fido.formatname and fido.puid   *)
(* are the fields of the first match.                                      *)
pronominfo(fido, force, quiet) ==
    LET begrip == Obj("BegripGegevens",
                      [begripLabel |-> Str(fido.formatname), begripCode |-> Str(fido.puid),
                       begripBegrippenlijst |->
                           Obj("VerwijzingGegevens",
                               [verwijzingNaam |-> Str(PronomRegister),
                                verwijzingIdentificatie |-> None])])
        empty == IF fido.answer = "leeg" THEN _warn(force, quiet) ELSE Ok(None)
    IN IF fido.answer = "ontbreekt" THEN _error(quiet)
       ELSE IF fido.answer = "fout" THEN Err("CalledProcessError")
       ELSE IF ~empty.ok THEN empty
       ELSE IF fido.answer = "OK" THEN WithLog(Ok(begrip), empty.log)
       ELSE IF fido.answer = "meerdere" THEN WithLog(Ok(begrip), empty.log + _log(quiet))
       ELSE WithLog(_warn(force, quiet), empty.log)

Sha256 == <<"S", "H", "A", "-", "2", "5", "6">>
ChecksumLijst ==
    <<"B", "e", "g", "r", "i", "p", "p", "e", "n", "l", "i", "j", "s", "t", " ",
      "C", "h", "e", "c", "k", "s", "u", "m", "A", "l", "g", "o", "r", "i", "t", "m", "e", " ",
      "M", "D", "T", "O">>

\* create_checksum(file_or_filename) with the default algorithm, for an open file object
create_checksum(hexdigest, now) ==
    Obj("ChecksumGegevens",
        [checksumAlgoritme |->
             Obj("BegripGegevens",
                 [begripLabel |-> Str(Sha256), begripCode |-> None,
                  begripBegrippenlijst |->
                      Obj("VerwijzingGegevens",
                          [verwijzingNaam |-> Str(ChecksumLijst),
                           verwijzingIdentificatie |-> None])]),
         checksumWaarde |-> Str(hexdigest),
         checksumDatum |-> Str(now)])

\* os.path.basename(path)
basename(path) ==
    LET slashes == {i \in 1..Len(path) : path[i] = "/"}
    IN IF slashes = {} THEN path
       ELSE SubSeq(path, (CHOOSE i \in slashes : \A j \in slashes : j <= i) + 1, Len(path))

\* a str argument iterated as it is, character by character: a fault to test C21 against
listify_Characters(v) ==
    IF IsStr(v) THEN [i \in 1..Len(v.s) |-> Str(<<v.s[i]>>)] ELSE v.items

\* the list a str argument is wrapped into
listify(v) == IF IsStr(v) THEN <<v>> ELSE v.items

(* create_bestand(infile, identificatiekenmerken, identificatiebronnen,    *)
(* informatieobject, naam, url, quiet, force). `a` holds the arguments and *)
(* what the call finds on disk: a.name and a.size of infile, its digest,   *)
(* the clock, fido's answer and the parsed informatieobject file (None     *)
(* when it is no XML). The result is the outcome r and the handles open    *)
(* when the call ends.                                                     *)
create_bestand(a, quiet, force) ==
    LET open0 == CallerHandles(a.infile, "infile")
                 \cup CallerHandles(a.informatieobject, "informatieobject")
        infile == _process_file(a.infile, "infile", open0)
        kenmerken == listify(a.identificatiekenmerken)
        bronnen == listify(a.identificatiebronnen)
        zipped == IF Len(kenmerken) < Len(bronnen) THEN Len(kenmerken) ELSE Len(bronnen)
        ids == List([i \in 1..zipped |->
                       Obj("IdentificatieGegevens",
                           [identificatieKenmerk |-> kenmerken[i],
                            identificatieBron |-> bronnen[i]])])
        naam == IF ~Truthy(a.naam) THEN Str(basename(a.name)) ELSE a.naam
        omvang == PyInt(a.size)
    IN IF ~infile.ok THEN [r |-> Err(infile.err), handles |-> infile.open]
       ELSE IF Len(kenmerken) # Len(bronnen) THEN [r |-> _error(quiet), handles |-> infile.open]
       ELSE CHOOSE call \in
         { IF ~bestandsformaat.ok THEN [r |-> bestandsformaat, handles |-> infile.open]
           ELSE IF ~informatieobject.ok
           THEN [r |-> WithLog(Err(informatieobject.err), bestandsformaat.log),
                 handles |-> informatieobject.open]
           ELSE IF a.tree = None
           THEN [r |-> WithLog(Err("XMLSyntaxError"), bestandsformaat.log),
                 handles |-> informatieobject.open]
           ELSE CHOOSE made \in
             { IF ~isrepresentatievan.ok
               THEN [r |-> WithLog(isrepresentatievan, bestandsformaat.log),
                     handles |-> informatieobject.open]
               ELSE [r |-> WithLog(New_Bestand(
                                       [naam |-> naam, identificatie |-> ids,
                                        omvang |-> omvang,
                                        bestandsformaat |-> bestandsformaat.val,
                                        checksum |-> create_checksum(a.digest, a.now),
                                        isRepresentatieVan |-> isrepresentatievan.val,
                                        URLBestand |-> a.url], force, quiet),
                                   bestandsformaat.log),
                     handles |-> informatieobject.open
                                   \ {informatieobject.handle, infile.handle}]
               : isrepresentatievan \in {detect_verwijzing(a.tree, quiet)} } : TRUE
           : bestandsformaat \in {pronominfo(a.fido, force, quiet)},
             informatieobject \in
                 {_process_file(a.informatieobject, "informatieobject", infile.open)} } : TRUE

----------------------------------------------------------------------------
(* Input documents: MDTO XML as ET.parse delivers it, every element in the *)
(* MDTO namespace                                                          *)

X(name, kids) == Elem(Tag(MDTO_NS, name), None, kids)
XT(name, s) == Elem(Tag(MDTO_NS, name), Str(s), <<>>)
\* an element without text, <name/>: lxml gives it the text None
XEmpty(name) == Elem(Tag(MDTO_NS, name), None, <<>>)

MDTO_doc(kids) ==
    [tag |-> Tag(MDTO_NS, "MDTO"), nsmap |-> {MDTO_NS, XSI_NS},
     schemaLocation |-> SCHEMA_LOCATION, text |-> None, kids |-> kids]

Text1 == <<"a">>
Text2 == <<"b", "c">>
LongNaam == [i \in 1..(MAX_NAAM_LENGTH + 1) |-> "x"]
MaxNaam == [i \in 1..MAX_NAAM_LENGTH |-> "x"]
Url1 == HttpScheme \o <<"x">>
Url2 == HttpScheme \o <<"y">>
BadUrl == <<"x", " ", "y">>
Size1 == <<"7">>
Size2 == <<"1", "2">>

\* the i-th sample text of a text element
xText(name, i) ==
    CASE name \in {"URLBestand", "raadpleeglocatieOnline"} -> IF i = 1 THEN Url1 ELSE Url2
      [] name = "omvang" -> IF i = 1 THEN Size1 ELSE Size2
      [] OTHER -> IF i = 1 THEN Text1 ELSE Text2

xIdentificatie(name, i) ==
    X(name, <<XT("identificatieKenmerk", xText("identificatieKenmerk", i)),
              XT("identificatieBron", xText("identificatieBron", i))>>)

\* sample 1 is the bare reference, sample 2 the reference with an identification
xVerwijzing(name, i) ==
    IF i = 1 THEN X(name, <<XT("verwijzingNaam", Text1)>>)
    ELSE X(name, <<XT("verwijzingNaam", Text2), xIdentificatie("verwijzingIdentificatie", i)>>)

xBegrip(name, i) ==
    IF i = 1
    THEN X(name, <<XT("begripLabel", Text1), xVerwijzing("begripBegrippenlijst", 1)>>)
    ELSE X(name, <<XT("begripLabel", Text2), XT("begripCode", Text1),
                   xVerwijzing("begripBegrippenlijst", i)>>)

xTermijn(name, i) ==
    IF i = 1 THEN X(name, <<XT("termijnLooptijd", Text1)>>)
    ELSE X(name, <<xBegrip("termijnTriggerStartLooptijd", 1),
                   XT("termijnStartdatumLooptijd", Text1), XT("termijnLooptijd", Text2),
                   XT("termijnEinddatum", Text2)>>)

xBeperking(name, i) ==
    IF i = 1 THEN X(name, <<xBegrip("beperkingGebruikType", 1)>>)
    ELSE X(name, <<xBegrip("beperkingGebruikType", i),
                   XT("beperkingGebruikNadereBeschrijving", Text1),
                   xVerwijzing("beperkingGebruikDocumentatie", 1),
                   xTermijn("beperkingGebruikTermijn", 1)>>)

xRaadpleeglocatie(name, i) ==
    IF i = 1 THEN X(name, <<xVerwijzing("raadpleeglocatieFysiek", 1)>>)
    ELSE X(name, <<xVerwijzing("raadpleeglocatieFysiek", i), XT("raadpleeglocatieOnline", Url1)>>)

xDekkingInTijd(name, i) ==
    IF i = 1
    THEN X(name, <<xBegrip("dekkingInTijdType", 1), XT("dekkingInTijdBegindatum", Text1)>>)
    ELSE X(name, <<xBegrip("dekkingInTijdType", i), XT("dekkingInTijdBegindatum", Text1),
                   XT("dekkingInTijdEinddatum", Text2)>>)

xEvent(name, i) ==
    IF i = 1 THEN X(name, <<xBegrip("eventType", 1)>>)
    ELSE X(name, <<xBegrip("eventType", i), XT("eventTijd", Text1),
                   xVerwijzing("eventVerantwoordelijkeActor", i), XT("eventResultaat", Text2)>>)

xGerelateerdInformatieobject(name, i) ==
    X(name, <<xVerwijzing("gerelateerdInformatieobjectVerwijzing", i),
              xBegrip("gerelateerdInformatieobjectTypeRelatie", i)>>)

xBetrokkene(name, i) ==
    X(name, <<xBegrip("betrokkeneTypeRelatie", i), xVerwijzing("betrokkeneActor", i)>>)

xChecksum(name, i) ==
    X(name, <<xBegrip("checksumAlgoritme", i), XT("checksumWaarde", xText("checksumWaarde", i)),
              XT("checksumDatum", Text1)>>)

\* the i-th well-formed sample of the element that `parser` decodes
xSample(name, parser, i) ==
    CASE parser \in {"parse_text", "parse_int"} -> XT(name, xText(name, i))
      [] parser = "parse_identificatie" -> xIdentificatie(name, i)
      [] parser = "parse_verwijzing" -> xVerwijzing(name, i)
      [] parser = "parse_begrip" -> xBegrip(name, i)
      [] parser = "parse_termijn" -> xTermijn(name, i)
      [] parser = "parse_beperking" -> xBeperking(name, i)
      [] parser = "parse_raadpleeglocatie" -> xRaadpleeglocatie(name, i)
      [] parser = "parse_dekking_in_tijd" -> xDekkingInTijd(name, i)
      [] parser = "parse_event" -> xEvent(name, i)
      [] parser = "parse_gerelateerd_informatieobject" -> xGerelateerdInformatieobject(name, i)
      [] parser = "parse_betrokkene" -> xBetrokkene(name, i)
      [] parser = "parse_checksum" -> xChecksum(name, i)

\* an element the schema does not know
xOnbekend == XT("onbekend", Text1)

(* Ill-formed variants of an element, by name: what a document that is not *)
(* valid MDTO may hold in the place of `name`.                             *)
xMalformed(name, parser) ==
    (IF parser = "parse_verwijzing"
     THEN [geenKinderen |-> XEmpty(name),
           drieKinderen |-> X(name, <<XT("verwijzingNaam", Text1),
                                      xIdentificatie("verwijzingIdentificatie", 1),
                                      XT("verwijzingNaam", Text2)>>),
           andereTag |-> X(name, <<XT("onbekend", Text2)>>)]
     ELSE IF parser = "parse_identificatie"
     THEN [eenKind |-> X(name, <<XT("identificatieKenmerk", Text1)>>),
           andereTags |-> X(name, <<XT("onbekend", Text1), XT("identificatieBron", Text2)>>)]
     ELSE IF parser = "parse_text"
     THEN (IF name = "naam" THEN [leeg |-> XEmpty(name), lang |-> XT(name, LongNaam),
                                  maximaal |-> XT(name, MaxNaam)]
           ELSE IF name = "URLBestand" THEN [ongeldig |-> XT(name, BadUrl), leeg |-> XEmpty(name)]
           ELSE [leeg |-> XEmpty(name)])
     ELSE IF parser = "parse_int"
     THEN [geenGetal |-> XT(name, Text1), leeg |-> XEmpty(name),
           voorloopnul |-> XT(name, <<"0", "0", "7">>)]
     ELSE IF parser = "parse_raadpleeglocatie"
     THEN [onbekendKind |-> X(name, <<xVerwijzing("raadpleeglocatieFysiek", 1), xOnbekend>>),
           ongeldigeUrl |-> X(name, <<XT("raadpleeglocatieOnline", BadUrl)>>),
           leeg |-> XEmpty(name)]
     ELSE [onbekendKind |-> X(name, xSample(name, parser, 1).kids \o <<xOnbekend>>),
           dubbelKind |-> X(name, <<xSample(name, parser, 2).kids[1]>>
                                  \o xSample(name, parser, 1).kids),
           leeg |-> XEmpty(name)])

----------------------------------------------------------------------------
(* The field declarations of the two top-level dataclasses *)

\* the fields in the order of the elements of a document
Informatieobject_order ==
    << "identificatie", "naam", "aggregatieniveau", "classificatie", "trefwoord",
       "omschrijving", "raadpleeglocatie", "dekkingInTijd", "dekkingInRuimte", "taal",
       "event", "waardering", "bewaartermijn", "informatiecategorie", "isOnderdeelVan",
       "bevatOnderdeel", "heeftRepresentatie", "aanvullendeMetagegevens",
       "gerelateerdInformatieobject", "archiefvormer", "betrokkene", "activiteit",
       "beperkingGebruik" >>

Bestand_order ==
    << "identificatie", "naam", "omvang", "bestandsformaat", "checksum", "URLBestand",
       "isRepresentatieVan" >>

\* fields declared without a default
Informatieobject_required ==
    {"naam", "identificatie", "archiefvormer", "beperkingGebruik", "waardering"}
Bestand_required ==
    {"naam", "identificatie", "omvang", "bestandsformaat", "checksum", "isRepresentatieVan"}

\* fields declared `T | List[T]`
Informatieobject_repeatable ==
    {"identificatie", "archiefvormer", "beperkingGebruik", "trefwoord", "event",
     "bevatOnderdeel", "aanvullendeMetagegevens", "betrokkene"}
Bestand_repeatable == {"identificatie", "checksum"}

Order(type) == IF type = "bestand" THEN Bestand_order ELSE Informatieobject_order
Required(type) == IF type = "bestand" THEN Bestand_required ELSE Informatieobject_required
Repeatable(type) == IF type = "bestand" THEN Bestand_repeatable ELSE Informatieobject_repeatable
Parsers(type) == IF type = "bestand" THEN bestand_parsers ELSE informatieobject_parsers
Fields(type) == {Order(type)[i] : i \in 1..Len(Order(type))}

----------------------------------------------------------------------------
(* The documents given to from_file: a base document changed in at most    *)
(* MaxVaried places. The base "minimaal" holds every required element      *)
(* once, the base "volledig" every element once.                           *)

MaxVaried == 1

Bases == {"minimaal", "volledig"}

\* the place after the last field, where a document may hold a stray element
Stray == "onbekend"

\* ill-formed variants tried per element of <informatieobject>
Informatieobject_malformed ==
    [f \in Fields("informatieobject") |->
        CASE f = "identificatie" -> {"eenKind", "andereTags"}
          [] f = "naam" -> {"leeg", "lang", "maximaal"}
          [] f = "omschrijving" -> {"leeg"}
          [] f = "waardering" -> {"onbekendKind", "dubbelKind", "leeg"}
          [] f = "archiefvormer" -> {"geenKinderen", "drieKinderen", "andereTag"}
          [] f = "raadpleeglocatie" -> {"onbekendKind", "ongeldigeUrl", "leeg"}
          [] f \in {"bewaartermijn", "beperkingGebruik", "event", "dekkingInTijd",
                    "gerelateerdInformatieobject", "betrokkene"} ->
                 {"onbekendKind", "dubbelKind"}
          [] OTHER -> {}]

Bestand_malformed ==
    [f \in Fields("bestand") |-> DOMAIN xMalformed(f, bestand_parsers[f])]

Malformed(type) == IF type = "bestand" THEN Bestand_malformed ELSE Informatieobject_malformed

\* what a document holds in the place of field f: a number of well-formed elements
\* ("0", "1", "2") or one ill-formed element
DocBase(type, base, f) ==
    IF f = Stray THEN "0"
    ELSE IF f \in Required(type) \/ base = "volledig" THEN "1" ELSE "0"

DocAlts(type, f) ==
    IF f = Stray THEN {"0", "aanwezig", "andereNamespace"}
    ELSE {"0", "1", "2"} \cup Malformed(type)[f]

Occurrences(type, f, alt) ==
    IF f = Stray
    THEN CASE alt = "0" -> <<>>
           [] alt = "aanwezig" -> <<xOnbekend>>
           [] alt = "andereNamespace" -> <<Elem(Tag("urn:x", "naam"), Str(Text1), <<>>)>>
    ELSE LET parser == Parsers(type)[f]
         IN CASE alt = "0" -> <<>>
              [] alt = "1" -> <<xSample(f, parser, IF f \in Required(type) THEN 1 ELSE 2)>>
              [] alt = "2" -> <<xSample(f, parser, 1), xSample(f, parser, 2)>>
              [] OTHER -> <<xMalformed(f, parser)[alt]>>

\* all ways to change at most k places of the choice `base`
RECURSIVE Varied(_, _, _, _)
Varied(base, places, alts(_), k) ==
    IF k = 0 THEN {base}
    ELSE LET less == Varied(base, places, alts, k - 1)
         IN less \cup UNION { {[c EXCEPT ![f] = a] : c \in {b \in less : b[f] = base[f]},
                                                     a \in alts(f) \ {base[f]}}
                              : f \in places }

DocPlaces(type) == Fields(type) \cup {Stray}

DocChoices(type, base) ==
    Varied([f \in DocPlaces(type) |-> DocBase(type, base, f)], DocPlaces(type),
           LAMBDA f : DocAlts(type, f), MaxVaried)

\* the document a choice describes
DocOf(type, choice) ==
    LET order == Order(type) \o <<Stray>>
    IN MDTO_doc(<<X(type, Flatten([i \in 1..Len(order) |->
                                      Occurrences(type, order[i], choice[order[i]])]))>>)

\* descriptions of the input documents; "leeg" is <MDTO/>, "vreemd" an <MDTO> holding
\* neither <informatieobject> nor <bestand>, "andereNamespace" one holding an
\* <informatieobject> of another namespace
Documents ==
    UNION { { [type |-> type, base |-> base, choice |-> c] : c \in DocChoices(type, base) }
            : type \in {"informatieobject", "bestand"}, base \in Bases }
    \cup { [type |-> t, base |-> "minimaal", choice |-> <<>>]
           : t \in {"leeg", "vreemd", "andereNamespace"} }

Document(d) ==
    CASE d.type = "leeg" -> MDTO_doc(<<>>)
      [] d.type = "vreemd" -> MDTO_doc(<<X("onbekend", <<XT("naam", Text1)>>)>>)
      [] d.type = "andereNamespace" ->
             MDTO_doc(<<Elem(Tag("urn:x", "informatieobject"), None, <<XT("naam", Text1)>>)>>)
      [] OTHER -> DocOf(d.type, d.choice)

(* A document is valid when every place holds well-formed elements, in a   *)
(* number the field's declaration allows.                                  *)
ValidDocument(d) ==
    /\ d.type \in {"informatieobject", "bestand"}
    /\ d.choice[Stray] = "0"
    /\ \A f \in Fields(d.type) :
          \/ d.choice[f] = "1"
          \/ d.choice[f] = "0" /\ f \notin Required(d.type)
          \/ d.choice[f] = "2" /\ f \in Repeatable(d.type)

----------------------------------------------------------------------------
(* The records a caller builds directly: sample values of every class *)

rIdentificatie(i) ==
    Obj("IdentificatieGegevens",
        [identificatieKenmerk |-> Str(xText("identificatieKenmerk", i)),
         identificatieBron |-> Str(xText("identificatieBron", i))])

rVerwijzing(i) ==
    Obj("VerwijzingGegevens",
        IF i = 1 THEN [verwijzingNaam |-> Str(Text1), verwijzingIdentificatie |-> None]
        ELSE [verwijzingNaam |-> Str(Text2), verwijzingIdentificatie |-> rIdentificatie(i)])

rBegrip(i) ==
    Obj("BegripGegevens",
        IF i = 1
        THEN [begripLabel |-> Str(Text1), begripBegrippenlijst |-> rVerwijzing(1),
              begripCode |-> None]
        ELSE [begripLabel |-> Str(Text2), begripBegrippenlijst |-> rVerwijzing(i),
              begripCode |-> Str(Text1)])

rTermijn(i) ==
    Obj("TermijnGegevens",
        IF i = 1
        THEN [termijnTriggerStartLooptijd |-> None, termijnStartdatumLooptijd |-> None,
              termijnLooptijd |-> Str(Text1), termijnEinddatum |-> None]
        ELSE [termijnTriggerStartLooptijd |-> rBegrip(1),
              termijnStartdatumLooptijd |-> Str(Text1), termijnLooptijd |-> Str(Text2),
              termijnEinddatum |-> Str(Text2)])

rBeperking(i) ==
    Obj("BeperkingGebruikGegevens",
        IF i = 1
        THEN [beperkingGebruikType |-> rBegrip(1), beperkingGebruikNadereBeschrijving |-> None,
              beperkingGebruikDocumentatie |-> None, beperkingGebruikTermijn |-> None]
        ELSE [beperkingGebruikType |-> rBegrip(i),
              beperkingGebruikNadereBeschrijving |-> Str(Text1),
              beperkingGebruikDocumentatie |-> rVerwijzing(1),
              beperkingGebruikTermijn |-> rTermijn(1)])

rDekkingInTijd(i) ==
    Obj("DekkingInTijdGegevens",
        [dekkingInTijdType |-> rBegrip(i), dekkingInTijdBegindatum |-> Str(Text1),
         dekkingInTijdEinddatum |-> IF i = 1 THEN None ELSE Str(Text2)])

rEvent(i) ==
    Obj("EventGegevens",
        IF i = 1
        THEN [eventType |-> rBegrip(1), eventTijd |-> None,
              eventVerantwoordelijkeActor |-> None, eventResultaat |-> None]
        ELSE [eventType |-> rBegrip(i), eventTijd |-> Str(Text1),
              eventVerantwoordelijkeActor |-> rVerwijzing(i), eventResultaat |-> Str(Text2)])

rGerelateerdInformatieobject(i) ==
    Obj("GerelateerdInformatieobjectGegevens",
        [gerelateerdInformatieobjectVerwijzing |-> rVerwijzing(i),
         gerelateerdInformatieobjectTypeRelatie |-> rBegrip(i)])

rBetrokkene(i) ==
    Obj("BetrokkeneGegevens",
        [betrokkeneTypeRelatie |-> rBegrip(i), betrokkeneActor |-> rVerwijzing(i)])

rChecksum(i) ==
    Obj("ChecksumGegevens",
        [checksumAlgoritme |-> rBegrip(i), checksumWaarde |-> Str(xText("checksumWaarde", i)),
         checksumDatum |-> Str(Text1)])

\* the arguments of the i-th sample RaadpleeglocatieGegevens(...) call
rRaadpleeglocatieArgs(i) ==
    IF i = 1 THEN [raadpleeglocatieFysiek |-> rVerwijzing(1), raadpleeglocatieOnline |-> Property]
    ELSE [raadpleeglocatieFysiek |-> rVerwijzing(i), raadpleeglocatieOnline |-> Str(Url1)]

\* the i-th sample value of the field that `parser` decodes; a
\* RaadpleeglocatieGegevens is made by its constructor, which may warn or exit
rSample(name, parser, i, force, quiet) ==
    CASE parser = "parse_text" -> Ok(Str(xText(name, i)))
      [] parser = "parse_int" -> Ok(PyInt(IF i = 1 THEN 7 ELSE 12))
      [] parser = "parse_identificatie" -> Ok(rIdentificatie(i))
      [] parser = "parse_verwijzing" -> Ok(rVerwijzing(i))
      [] parser = "parse_begrip" -> Ok(rBegrip(i))
      [] parser = "parse_termijn" -> Ok(rTermijn(i))
      [] parser = "parse_beperking" -> Ok(rBeperking(i))
      [] parser = "parse_raadpleeglocatie" ->
             New_RaadpleeglocatieGegevens(rRaadpleeglocatieArgs(i), force, quiet)
      [] parser = "parse_dekking_in_tijd" -> Ok(rDekkingInTijd(i))
      [] parser = "parse_event" -> Ok(rEvent(i))
      [] parser = "parse_gerelateerd_informatieobject" -> Ok(rGerelateerdInformatieobject(i))
      [] parser = "parse_betrokkene" -> Ok(rBetrokkene(i))
      [] parser = "parse_checksum" -> Ok(rChecksum(i))

(* What the caller passes for field f: nothing ("weggelaten", the default  *)
(* applies), None, a value ("v"), a list of one or two values, or a        *)
(* special text.                                                           *)
ArgBase(type, base, f) ==
    IF f \in Required(type) \/ base = "volledig" THEN "v" ELSE "weggelaten"

ArgAlts(type, f) ==
    {"v"}
    \cup (IF f \in Required(type) THEN {"None"} ELSE {"weggelaten"})
    \cup (IF f = "URLBestand" THEN {"None"} ELSE {})
    \cup (IF f \in Repeatable(type) THEN {"[v]", "[v,w]"} ELSE {})
    \cup (IF f = "naam" THEN {"leeg", "lang", "maximaal"} ELSE {})
    \cup (IF f \in {"URLBestand", "raadpleeglocatie"} THEN {"ongeldig"} ELSE {})
    \cup (IF f = "URLBestand" THEN {"leeg"} ELSE {})
    \cup (IF f \notin Required(type) /\ Parsers(type)[f] = "parse_text" THEN {"leeg"} ELSE {})
    \cup (IF f \notin Required(type) /\ f \in Repeatable(type) THEN {"[]"} ELSE {})

\* the default of an omitted field: None, or the property object of URLBestand
Default(type, f) == IF type = "bestand" /\ f = "URLBestand" THEN Property ELSE None

Argument(type, f, alt, force, quiet) ==
    LET parser == Parsers(type)[f]
        v == rSample(f, parser, 1, force, quiet)
        w == rSample(f, parser, 2, force, quiet)
        single == IF f \in Required(type) THEN v ELSE w
    IN CASE alt = "weggelaten" -> Ok(Default(type, f))
         [] alt = "None" -> Ok(None)
         [] alt = "v" -> single
         [] alt = "[v]" -> IF single.ok THEN [single EXCEPT !.val = List(<<single.val>>)]
                           ELSE single
         [] alt = "[v,w]" ->
                IF ~v.ok THEN v
                ELSE IF ~w.ok THEN WithLog(w, v.log)
                ELSE WithLog(Ok(List(<<v.val, w.val>>)), v.log + w.log)
         [] alt = "leeg" -> Ok(Str(<<>>))
         [] alt = "[]" -> Ok(List(<<>>))
         [] alt = "lang" -> Ok(Str(LongNaam))
         [] alt = "maximaal" -> Ok(Str(MaxNaam))
         [] alt = "ongeldig" ->
                IF f = "raadpleeglocatie"
                THEN New_RaadpleeglocatieGegevens(
                         [raadpleeglocatieFysiek |-> None, raadpleeglocatieOnline |-> Str(BadUrl)],
                         force, quiet)
                ELSE Ok(Str(BadUrl))

ArgChoices(type, base) ==
    Varied([f \in Fields(type) |-> ArgBase(type, base, f)], Fields(type),
           LAMBDA f : ArgAlts(type, f), MaxVaried)

Constructions ==
    UNION { { [type |-> type, base |-> base, choice |-> c] : c \in ArgChoices(type, base) }
            : type \in {"informatieobject", "bestand"}, base \in Bases }

ClassOf(type) == IF type = "bestand" THEN "Bestand" ELSE "Informatieobject"

(* Informatieobject(...) or Bestand(...) as the caller writes it: the      *)
(* arguments are evaluated first, in the order of the fields, then the     *)
(* dataclass constructor runs.                                             *)
Construct(c, force, quiet) ==
    LET order == Order(c.type)
        index(f) == CHOOSE i \in 1..Len(order) : order[i] = f
    IN CHOOSE r \in
          { LET k == FirstFail(args)
                kwargs == [f \in Fields(c.type) |-> args[index(f)].val]
            IN IF k <= Len(order) THEN WithLog(Err(args[k].err), SumLog(args, k))
               ELSE WithLog(New(ClassOf(c.type), kwargs, force, quiet), SumLog(args, Len(order)))
            : args \in { [i \in 1..Len(order) |->
                            Argument(c.type, order[i], c.choice[order[i]], force, quiet)] } }
          : TRUE

----------------------------------------------------------------------------
(* The calls of create_bestand: a base call changed in at most MaxVaried   *)
(* places.                                                                 *)

InfilePath == <<"d", "/", "f">>
Digest == <<"0", "a">>
Now == <<"n">>

CallPlaces == {"infile", "ids", "naam", "url", "fido", "informatieobject", "inhoud"}

CallBase(f) ==
    CASE f = "infile" -> "pad"
      [] f = "ids" -> "str"
      [] f = "naam" -> "None"
      [] f = "url" -> "None"
      [] f = "fido" -> "OK"
      [] f = "informatieobject" -> "leesbaar"
      [] f = "inhoud" -> "minimaal"

CallAlts(f) ==
    CASE f = "infile" -> {"pad", "ontbreekt", "leesbaar", "schrijfbaar", "getal"}
      [] f = "ids" -> {"str", "lijsten", "ongelijk"}
      [] f = "naam" -> {"None", "v", "leeg", "lang"}
      [] f = "url" -> {"None", "v", "ongeldig"}
      [] f = "fido" -> {"OK", "meerdere", "FAIL", "leeg", "fout", "ontbreekt"}
      [] f = "informatieobject" -> {"leesbaar", "schrijfbaar", "pad", "getal"}
      [] f = "inhoud" -> {"minimaal", "tweeIdentificaties", "geenIdentificatie", "eenKind",
                          "gespreid", "geenNaam", "leegNaam", "bestand", "geenXml"}

\* the parsed informatieobject file, None when the file is no XML
Inhoud(alt) ==
    LET base == [f \in DocPlaces("informatieobject") |->
                    DocBase("informatieobject", "minimaal", f)]
        doc(f, v) == DocOf("informatieobject", [base EXCEPT ![f] = v])
    IN CASE alt = "minimaal" -> DocOf("informatieobject", base)
         [] alt = "tweeIdentificaties" -> doc("identificatie", "2")
         [] alt = "geenIdentificatie" -> doc("identificatie", "0")
         [] alt = "eenKind" -> doc("identificatie", "eenKind")
         [] alt = "gespreid" ->
                MDTO_doc(<<X("informatieobject",
                             <<X("identificatie", <<XT("identificatieKenmerk", Text1)>>),
                               X("identificatie", <<XT("identificatieBron", Text2)>>),
                               XT("naam", Text1)>>)>>)
         [] alt = "geenNaam" -> doc("naam", "0")
         [] alt = "leegNaam" -> doc("naam", "leeg")
         [] alt = "bestand" ->
                DocOf("bestand", [f \in DocPlaces("bestand") |-> DocBase("bestand", "minimaal", f)])
         [] alt = "geenXml" -> None

\* the arguments of a call, and what it finds on disk
CallOf(c) ==
    [infile |-> c.infile,
     identificatiekenmerken |->
         IF c.ids = "str" THEN Str(Text1) ELSE List(<<Str(Text1), Str(Text2)>>),
     identificatiebronnen |->
         IF c.ids = "lijsten" THEN List(<<Str(Text2), Str(Text1)>>) ELSE Str(Text2),
     informatieobject |-> c.informatieobject,
     naam |-> CASE c.naam = "None" -> None
                [] c.naam = "v" -> Str(Text2)
                [] c.naam = "leeg" -> Str(<<>>)
                [] c.naam = "lang" -> Str(LongNaam),
     url |-> CASE c.url = "None" -> None
               [] c.url = "v" -> Str(Url1)
               [] c.url = "ongeldig" -> Str(BadUrl),
     name |-> InfilePath,
     size |-> Len(InfilePath),
     digest |-> Digest,
     now |-> Now,
     fido |-> [answer |-> c.fido, formatname |-> Text1, puid |-> Text2],
     tree |-> Inhoud(c.inhoud)]

Calls == Varied([f \in CallPlaces |-> CallBase(f)], CallPlaces, CallAlts, MaxVaried)

\* in how many places a document or a call differs from its base
Variation(s) ==
    IF s.how = "from_file"
    THEN IF s.d.type \in {"informatieobject", "bestand"}
         THEN Cardinality({f \in DOMAIN s.d.choice :
                              s.d.choice[f] # DocBase(s.d.type, s.d.base, f)})
         ELSE MaxVaried
    ELSE IF s.how = "construct"
    THEN Cardinality({f \in DOMAIN s.d.choice :
                         s.d.choice[f] # ArgBase(s.d.type, s.d.base, f)})
    ELSE IF s.how = "create_bestand"
    THEN Cardinality({f \in CallPlaces : s.d.choice[f] # CallBase(f)})
    ELSE MaxVaried

----------------------------------------------------------------------------
(* The caller's session: it obtains one record (from a file, from a        *)
(* constructor, from create_bestand or create_checksum), assigns to its    *)
(* fields, serializes it and drops it.                                     *)

NoSrc == [how |-> "none"]
NoOut == [ok |-> FALSE, err |-> "none", log |-> 0]
NoRes == [op |-> "none", arg |-> None, ok |-> TRUE, err |-> "", log |-> 0]

\* what the caller sees of a call: whether it returned, the exception, the lines logged
Outcome(op, arg, r) ==
    [op |-> op, arg |-> arg, ok |-> r.ok, err |-> IF r.ok THEN "" ELSE r.err, log |-> r.log]

Init ==
    /\ _force = FALSE
    /\ _quiet = FALSE
    /\ obj = None
    /\ src = NoSrc
    /\ out = NoOut
    /\ res = NoRes
    /\ handles = {}
    /\ edits = 0

\* obj = from_file(xmlfile)
FromFile ==
    /\ src = NoSrc
    /\ \E d \in Documents :
          \E r \in {from_file(Document(d), _force, _quiet)} :
             /\ obj' = IF r.ok THEN r.val ELSE None
             /\ src' = [how |-> "from_file", d |-> d]
             /\ res' = Outcome("from_file", None, r)
    /\ UNCHANGED <<_force, _quiet, out, handles, edits>>

\* obj = Informatieobject(...) or obj = Bestand(...)
Constructor ==
    /\ src = NoSrc
    /\ \E c \in Constructions :
          \E r \in {Construct(c, _force, _quiet)} :
             /\ obj' = IF r.ok THEN r.val ELSE None
             /\ src' = [how |-> "construct", d |-> c]
             /\ res' = Outcome("construct", None, r)
    /\ UNCHANGED <<_force, _quiet, out, handles, edits>>

\* obj = create_bestand(...)
CreateBestand ==
    /\ src = NoSrc
    /\ \E c \in Calls, quiet \in BOOLEAN, force \in BOOLEAN :
          \E call \in {create_bestand(CallOf(c), quiet, force)} :
             /\ _quiet' = quiet
             /\ _force' = force
             /\ obj' = IF call.r.ok THEN call.r.val ELSE None
             /\ src' = [how |-> "create_bestand",
                        d |-> [type |-> "bestand", base |-> "minimaal", choice |-> c,
                               quiet |-> quiet, force |-> force]]
             /\ res' = Outcome("create_bestand", None, call.r)
             /\ handles' = call.handles
    /\ UNCHANGED <<out, edits>>

\* the file arguments create_checksum is called with
ChecksumFiles == {"pad", "ontbreekt", "leesbaar", "schrijfbaar", "getal"}

\* obj = create_checksum(file_or_filename): the handle _process_file returns is read and
\* stays as it is
CreateChecksum ==
    /\ src = NoSrc
    /\ \E file \in ChecksumFiles :
          \E infile \in {_process_file(file, "file_or_filename",
                                       CallerHandles(file, "file_or_filename"))} :
             /\ obj' = IF infile.ok THEN create_checksum(Digest, Now) ELSE None
             /\ src' = [how |-> "create_checksum", file |-> file]
             /\ res' = Outcome("create_checksum", None,
                               IF infile.ok THEN Ok(None) ELSE Err(infile.err))
             /\ handles' = infile.open
    /\ UNCHANGED <<_force, _quiet, out, edits>>

IsRecord(v) == isinstance(v, "Informatieobject") \/ isinstance(v, "Bestand")

\* out = obj.to_xml()
ToXml ==
    /\ IsRecord(obj)
    /\ \E call \in {IF isinstance(obj, "Bestand") THEN Bestand_to_xml(obj)
                     ELSE Informatieobject_to_xml(obj)} :
          /\ out' = call.r
          /\ obj' = call.self
          /\ res' = Outcome("to_xml", None, call.r)
    /\ UNCHANGED <<_force, _quiet, src, handles, edits>>

NaamValues == {None, Str(Text2), Str(LongNaam), Str(<<>>)}
UrlValues == {None, Str(Url2), Str(BadUrl), Str(<<>>)}

\* obj.naam = v: a plain attribute of both dataclasses
SetNaam ==
    /\ IsRecord(obj)
    /\ Variation(src) + edits < MaxVaried
    /\ \E v \in NaamValues :
          /\ obj' = [obj EXCEPT !.f.naam = v]
          /\ res' = Outcome("set_naam", v, Ok(None))
    /\ edits' = edits + 1
    /\ UNCHANGED <<_force, _quiet, src, out, handles>>

\* obj.URLBestand = v: the property setter of Bestand
SetURLBestand ==
    /\ isinstance(obj, "Bestand")
    /\ Variation(src) + edits < MaxVaried
    /\ \E v \in UrlValues :
          \E r \in {URLBestand_setter(v, _force, _quiet)} :
             /\ obj' = IF r.ok THEN [obj EXCEPT !.f.URLBestand = r.val] ELSE obj
             /\ res' = Outcome("set_URLBestand", v, r)
    /\ edits' = edits + 1
    /\ UNCHANGED <<_force, _quiet, src, out, handles>>

\* obj.raadpleeglocatie.raadpleeglocatieOnline = v: the property setter of
\* RaadpleeglocatieGegevens
SetRaadpleeglocatieOnline ==
    /\ isinstance(obj, "Informatieobject")
    /\ isinstance(obj.f.raadpleeglocatie, "RaadpleeglocatieGegevens")
    /\ Variation(src) + edits < MaxVaried
    /\ \E v \in UrlValues :
          \E r \in {raadpleeglocatieOnline_setter(v, _force, _quiet)} :
             /\ obj' = IF r.ok
                       THEN [obj EXCEPT !.f.raadpleeglocatie.f.raadpleeglocatieOnline = r.val]
                       ELSE obj
             /\ res' = Outcome("set_raadpleeglocatieOnline", v, r)
    /\ edits' = edits + 1
    /\ UNCHANGED <<_force, _quiet, src, out, handles>>

\* the caller lets go of the record
Drop ==
    /\ src # NoSrc
    /\ obj' = None
    /\ src' = NoSrc
    /\ out' = NoOut
    /\ res' = NoRes
    /\ handles' = {}
    /\ edits' = 0
    /\ UNCHANGED <<_force, _quiet>>

Next ==
    \/ FromFile
    \/ Constructor
    \/ CreateBestand
    \/ CreateChecksum
    \/ ToXml
    \/ SetNaam
    \/ SetURLBestand
    \/ SetRaadpleeglocatieOnline
    \/ Drop

Spec == Init /\ [][Next]_vars

----------------------------------------------------------------------------
(* Serialization of a tree, as serialization_chain of the test suite does  *)
(* it with ET.tostring: an element is written under its local name when    *)
(* its namespace is the default namespace of the document, or none.        *)

QName(tag) == IF tag.ns \in {NoNs, MDTO_NS} THEN tag.local ELSE removeprefix(tag)

RECURSIVE tostring_element(_)
tostring_element(e) ==
    [name |-> QName(e.tag), text |-> e.text,
     kids |-> [i \in 1..Len(e.kids) |-> tostring_element(e.kids[i])]]

tostring(tree) ==
    [xmlns |-> tree.nsmap, schemaLocation |-> tree.schemaLocation,
     root |-> tostring_element(tree)]

\* the children of <informatieobject> or <bestand> in a tree
Body(tree) == tree.kids[1].kids

\* the kind of a record, as the field declarations name it
TypeOf(v) == IF isinstance(v, "Bestand") THEN "bestand" ELSE "informatieobject"

\* self.to_xml() of a top-level record
Record_to_xml(self) ==
    IF isinstance(self, "Bestand") THEN Bestand_to_xml(self) ELSE Informatieobject_to_xml(self)

----------------------------------------------------------------------------
(* Properties *)

\* the record was parsed from a valid document and has not been assigned to since
ParsedValid == src.how = "from_file" /\ ValidDocument(src.d) /\ edits = 0

(* C1: for every valid document D of either kind, from_file(D) returns a   *)
(* record, and to_xml() of that record serializes to a document identical  *)
(* to D: the same elements, in the same order, with the same text.         *)
C1_RoundTrip ==
    ParsedValid =>
        /\ res.op = "from_file" => res.ok
        /\ res.op = "to_xml" => out.ok /\ tostring(out.val) = tostring(Document(src.d))

\* the record was built by a constructor call and has not been assigned to since
Constructed == src.how = "construct" /\ edits = 0

(* C2: for every field declared single-or-list and every record that      *)
(* serializes with the field set to v, the same record built with the      *)
(* field set to the one-element list [v] serializes with to_xml() too,     *)
(* and to the same XML.                                                    *)
C2_CardinalityNormalization ==
    (Constructed /\ res.op = "to_xml") =>
        \A f \in Repeatable(src.d.type) :
            src.d.choice[f] = "[v]" =>
                LET single == Construct([src.d EXCEPT !.choice[f] = "v"], _force, _quiet)
                    xml == Record_to_xml(single.val).r
                IN (single.ok /\ xml.ok) => (out.ok /\ tostring(out.val) = tostring(xml.val))

\* the place of field f in the order of its type
IndexIn(order, f) == CHOOSE i \in 1..Len(order) : order[i] = f

\* the elements of `elems` that carry the name f
Named(elems, f) == SelectSeq(elems, LAMBDA c : c.tag.local = f)

(* C3: when to_xml succeeds, the children of <informatieobject> or      *)
(* <bestand> are fields of the type, in the one fixed order of the type,   *)
(* and an optional field that is None contributes no element.              *)
C3_FieldOrder ==
    (res.op = "to_xml" /\ out.ok) =>
        LET type == TypeOf(obj)
            kids == Body(out.val)
        IN /\ \A i \in 1..Len(kids) : kids[i].tag.local \in Fields(type)
           /\ \A i, j \in 1..Len(kids) :
                 i < j => IndexIn(Order(type), kids[i].tag.local)
                              <= IndexIn(Order(type), kids[j].tag.local)
           /\ \A f \in Fields(type) \ Required(type) :
                 IsNone(obj.f[f]) => Len(Named(kids, f)) = 0

\* to_xml has written an Informatieobject in which an optional field is absent between
\* fields that are present
C3_Witness ==
    /\ res.op = "to_xml"
    /\ out.ok
    /\ isinstance(obj, "Informatieobject")
    /\ \E f, g, h \in Fields("informatieobject") \ Required("informatieobject") :
          /\ IndexIn(Informatieobject_order, f) < IndexIn(Informatieobject_order, g)
          /\ IndexIn(Informatieobject_order, g) < IndexIn(Informatieobject_order, h)
          /\ Len(Named(Body(out.val), f)) > 0
          /\ IsNone(obj.f[g])
          /\ Len(Named(Body(out.val), h)) > 0

\* the elements of `elems` that from_file files under field f
Occurring(elems, f) == SelectSeq(elems, LAMBDA c : removeprefix(c.tag) = f)

(* the record holds, for every field of the table, what the collapse rule  *)
(* says for the number of children with that tag; composite values are  *)
(* held to the rule in turn                                                *)
RECURSIVE Collapsed(_, _, _)
Collapsed(elems, record, table) ==
    \A f \in DOMAIN table :
        LET occ == Occurring(elems, f)
            decoded(node, value) ==
                IF table[f] \in DOMAIN Composite
                THEN /\ isinstance(value, Composite[table[f]].cls)
                     /\ Collapsed(node.kids, value, Composite[table[f]].parsers)
                ELSE value = xml_parser(table[f], node, _force, _quiet).val
        IN /\ Len(occ) = 0 => IsNone(record.f[f])
           /\ Len(occ) = 1 => decoded(occ[1], record.f[f])
           /\ Len(occ) > 1 =>
                 /\ IsList(record.f[f])
                 /\ Len(record.f[f].items) = Len(occ)
                 /\ \A i \in 1..Len(occ) : decoded(occ[i], record.f[f].items[i])

(* C4: in a record that from_file returns, and in every composite value    *)
(* inside it, a field is None when the element has no child with that tag, *)
(* the bare decoded value when it has one, and the list of the decoded     *)
(* values, in document order, when it has more.                            *)
C4_CollapseRule ==
    (res.op = "from_file" /\ res.ok) =>
        Collapsed(Body(Document(src.d)), obj, Parsers(src.d.type))

\* from_file has returned a record for a document that repeats one element and lacks another
C4_Witness ==
    /\ res.op = "from_file"
    /\ res.ok
    /\ \E f, g, h \in Fields(src.d.type) :
          /\ Len(Occurring(Body(Document(src.d)), f)) = 2
          /\ IsList(obj.f[f])
          /\ Len(Occurring(Body(Document(src.d)), g)) = 0
          /\ Len(Occurring(Body(Document(src.d)), h)) = 1

\* some element decoded through a field table has a child that is no key of the table
RECURSIVE UnknownChild(_, _)
UnknownChild(elems, table) ==
    \E i \in 1..Len(elems) :
        \/ elems[i].tag.ns # MDTO_NS
        \/ elems[i].tag.local \notin DOMAIN table
        \/ /\ table[elems[i].tag.local] \in DOMAIN Composite
           /\ UnknownChild(elems[i].kids, Composite[table[elems[i].tag.local]].parsers)

\* the document is an <informatieobject> or <bestand> with an unknown child somewhere
HasUnknownChild ==
    /\ src.how = "from_file"
    /\ src.d.type \in {"informatieobject", "bestand"}
    /\ UnknownChild(Body(Document(src.d)), Parsers(src.d.type))

(* C5: from_file on a document in which an element decoded through a      *)
(* field table has a child that is no key of the table ends in an error    *)
(* and returns no record; when that child is the only defect of the        *)
(* document, the error is the KeyError of the table lookup.                *)
C5_UnknownElementRejected ==
    (res.op = "from_file" /\ HasUnknownChild) =>
        /\ ~res.ok
        /\ IsNone(obj)
        /\ Variation(src) = 1 => res.err = "KeyError"

\* from_file has met an unknown child inside a nested composite element
C5_Witness ==
    /\ res.op = "from_file"
    /\ HasUnknownChild
    /\ \E f \in Fields(src.d.type) : src.d.choice[f] = "onbekendKind"
    /\ res.err = "KeyError"

\* the values a field holds, one per element of the document
Items(v) == IF IsList(v) THEN v.items ELSE <<v>>

(* C6: from_file decodes a reference element with one child into a         *)
(* VerwijzingGegevens with that child's text as verwijzingNaam and no      *)
(* verwijzingIdentificatie, and one with two children into a            *)
(* VerwijzingGegevens whose verwijzingIdentificatie is the                 *)
(* IdentificatieGegevens of the two sub-fields of the second child.        *)
C6_ReferenceShape ==
    (res.op = "from_file" /\ res.ok) =>
        \A body \in {Body(Document(src.d))}, f \in Fields(src.d.type) :
            Parsers(src.d.type)[f] = "parse_verwijzing" =>
                \A occ \in {Named(body, f)} :
                   \A i \in 1..Len(occ) :
                      /\ Len(occ[i].kids) = 1 =>
                            Items(obj.f[f])[i] =
                                Obj("VerwijzingGegevens",
                                    [verwijzingNaam |-> occ[i].kids[1].text,
                                     verwijzingIdentificatie |-> None])
                      /\ Len(occ[i].kids) = 2 =>
                            Items(obj.f[f])[i] =
                                Obj("VerwijzingGegevens",
                                    [verwijzingNaam |-> occ[i].kids[1].text,
                                     verwijzingIdentificatie |->
                                         Obj("IdentificatieGegevens",
                                             [identificatieKenmerk |->
                                                  occ[i].kids[2].kids[1].text,
                                              identificatieBron |->
                                                  occ[i].kids[2].kids[2].text])])

\* from_file has decoded a reference of each shape in one document
C6_Witness ==
    /\ res.op = "from_file"
    /\ res.ok
    /\ \E f, g \in Fields(src.d.type) :
          /\ isinstance(obj.f[f], "VerwijzingGegevens")
          /\ IsNone(obj.f[f].f.verwijzingIdentificatie)
          /\ isinstance(obj.f[g], "VerwijzingGegevens")
          /\ isinstance(obj.f[g].f.verwijzingIdentificatie, "IdentificatieGegevens")

(* C7: from_file returns an Informatieobject when the first child of the   *)
(* document root is <informatieobject>, a Bestand when it is <bestand>     *)
(* (for a valid document it does return), and for any other child it       *)
(* fails with ValueError and returns no record.                            *)
C7_UnwrapByKind ==
    res.op = "from_file" =>
        \A root \in {Document(src.d)} : Len(root.kids) > 0 =>
           LET child == root.kids[1].tag IN
           /\ child = Tag(MDTO_NS, "informatieobject") =>
                 /\ res.ok => isinstance(obj, "Informatieobject")
                 /\ ValidDocument(src.d) => res.ok
           /\ child = Tag(MDTO_NS, "bestand") =>
                 /\ res.ok => isinstance(obj, "Bestand")
                 /\ ValidDocument(src.d) => res.ok
           /\ child \notin {Tag(MDTO_NS, "informatieobject"), Tag(MDTO_NS, "bestand")} =>
                 /\ ~res.ok
                 /\ res.err = "ValueError"
                 /\ IsNone(obj)

\* from_file has refused a document whose root holds another element
C7_Witness ==
    /\ res.op = "from_file"
    /\ src.d.type = "vreemd"
    /\ res.err = "ValueError"
    /\ IsNone(obj)

\* a record was just asked for with a naam of more than MAX_NAAM_LENGTH characters,
\* and nothing else out of the ordinary
LongNaamGiven ==
    /\ res.op \in {"from_file", "construct"}
    /\ src.d.type \in {"informatieobject", "bestand"}
    /\ src.d.choice["naam"] = "lang"
    /\ Variation(src) = 1

(* C8: constructing a record (Informatieobject or Bestand, directly or     *)
(* through from_file) whose naam is longer than 80 characters, with the    *)
(* mode flags as they are when no caller has set one, logs a warning and   *)
(* yields the record with the naam kept.                                   *)
C8_NameLengthPolicy ==
    (LongNaamGiven /\ ~_force /\ ~_quiet) =>
        /\ res.ok
        /\ res.log > 0
        /\ obj.f.naam = Str(LongNaam)

UrlAssigned == res.op \in {"set_URLBestand", "set_raadpleeglocatieOnline"}

\* a value that is no URL: the assignments here pass None or a string
InvalidUrl(v) == IsStr(v) /\ ~validators_url(v)

\* the value the assigned field holds
StoredUrl ==
    IF res.op = "set_URLBestand" THEN obj.f.URLBestand
    ELSE obj.f.raadpleeglocatie.f.raadpleeglocatieOnline

\* the tree holds the URL fields of the record that `emits` says it must hold, with their text
UrlsEmitted(emits(_)) ==
    /\ (isinstance(obj, "Bestand") /\ emits(obj.f.URLBestand)) =>
           \E i \in 1..Len(Body(out.val)) :
               Body(out.val)[i] = Element("URLBestand", obj.f.URLBestand, <<>>)
    /\ (/\ isinstance(obj, "Informatieobject")
        /\ isinstance(obj.f.raadpleeglocatie, "RaadpleeglocatieGegevens")
        /\ emits(obj.f.raadpleeglocatie.f.raadpleeglocatieOnline)) =>
           \E i \in 1..Len(Body(out.val)) :
               /\ Body(out.val)[i].tag.local = "raadpleeglocatie"
               /\ \E j \in 1..Len(Body(out.val)[i].kids) :
                     Body(out.val)[i].kids[j] =
                         Element("raadpleeglocatieOnline",
                                 obj.f.raadpleeglocatie.f.raadpleeglocatieOnline, <<>>)

(* C9 as claimed: assigning an invalid URL to URLBestand or                *)
(* raadpleeglocatieOnline in permissive mode logs a warning, stores the    *)
(* value unchanged and to_xml later emits it; in strict mode the           *)
(* assignment aborts; a valid URL or None is stored without warning.       *)
C9_UrlPolicy ==
    /\ UrlAssigned =>
          IF InvalidUrl(res.arg)
          THEN IF _force THEN res.ok /\ res.log > 0 /\ StoredUrl = res.arg
               ELSE ~res.ok /\ res.err = "SystemExit"
          ELSE res.ok /\ res.log = 0 /\ StoredUrl = res.arg
    /\ (res.op = "to_xml" /\ out.ok) => UrlsEmitted(InvalidUrl)

\* a string that is no URL and not empty
InvalidUrlText(v) == InvalidUrl(v) /\ Truthy(v)

(* C9, amended: assigning an invalid URL to URLBestand or                  *)
(* raadpleeglocatieOnline in permissive mode logs a warning unless _quiet  *)
(* is set, stores the value unchanged, and to_xml later emits it unless it *)
(* is the empty string; in strict mode the assignment aborts (after the    *)
(* same logging) and the field keeps its value; a valid URL or None is     *)
(* stored without warning in both modes.                                   *)
C9_UrlPolicyAmended ==
    /\ UrlAssigned =>
          IF InvalidUrl(res.arg)
          THEN /\ res.log = _log(_quiet)
               /\ IF _force THEN res.ok /\ StoredUrl = res.arg
                  ELSE ~res.ok /\ res.err = "SystemExit" /\ StoredUrl # res.arg
          ELSE res.ok /\ res.log = 0 /\ StoredUrl = res.arg
    /\ (res.op = "to_xml" /\ out.ok) =>
          /\ UrlsEmitted(InvalidUrlText)
          /\ (isinstance(obj, "Bestand") /\ ~Truthy(obj.f.URLBestand)) =>
                 Len(Named(Body(out.val), "URLBestand")) = 0

\* in permissive mode an invalid URL was assigned to URLBestand, and to_xml has written it
C9_Witness ==
    /\ res.op = "to_xml"
    /\ out.ok
    /\ _force
    /\ edits = 1
    /\ isinstance(obj, "Bestand")
    /\ obj.f.URLBestand = Str(BadUrl)
    /\ Len(Named(Body(out.val), "URLBestand")) = 1

\* the constructor call passes None for a required field, and is ordinary otherwise
NullRequired(s) ==
    /\ s.how = "construct"
    /\ Variation(s) = 1
    /\ \E f \in Required(s.d.type) : s.d.choice[f] = "None"

\* where the record of the minimal constructor call with required field f set to None
\* is rejected: at construction, at to_xml, or nowhere
StageOfFailure(type, f) ==
    LET c == [type |-> type, base |-> "minimaal",
              choice |-> [[g \in Fields(type) |-> ArgBase(type, "minimaal", g)]
                             EXCEPT ![f] = "None"]]
        made == Construct(c, _force, _quiet)
    IN IF ~made.ok THEN "construction"
       ELSE IF ~Record_to_xml(made.val).r.ok THEN "to_xml"
       ELSE "none"

(* C10: a record whose required field is None is rejected, at the same     *)
(* stage (construction or to_xml) for every required field of both types;  *)
(* to_xml never succeeds on such a record.                                 *)
C10_RequiredAbsence ==
    /\ (res.op = "to_xml" /\ \E f \in Required(TypeOf(obj)) : IsNone(obj.f[f])) => ~out.ok
    /\ (res.op = "construct" /\ NullRequired(src)) =>
          \A f \in Required(src.d.type) :
              src.d.choice[f] = "None" =>
                  /\ StageOfFailure(src.d.type, f) # "none"
                  /\ \A t \in {"informatieobject", "bestand"} :
                        \A g \in Required(t) :
                            StageOfFailure(t, g) = StageOfFailure(src.d.type, f)

\* what the caller sees of the last call when the same call is the first one made after
\* the module is loaded
FreshOutcome ==
    CASE res.op = "construct" -> Outcome("construct", None, Construct(src.d, FALSE, FALSE))
      [] res.op = "from_file" ->
             Outcome("from_file", None, from_file(Document(src.d), FALSE, FALSE))
      [] res.op = "set_URLBestand" ->
             Outcome("set_URLBestand", res.arg, URLBestand_setter(res.arg, FALSE, FALSE))
      [] res.op = "set_raadpleeglocatieOnline" ->
             Outcome("set_raadpleeglocatieOnline", res.arg,
                     raadpleeglocatieOnline_setter(res.arg, FALSE, FALSE))
      [] res.op = "create_bestand" ->
             Outcome("create_bestand", None,
                     create_bestand(CallOf(src.d.choice), src.d.quiet, src.d.force).r)
      [] OTHER -> res

(* C11: the outcome (return, lines logged, exit) of a construction, a URL  *)
(* assignment, from_file or create_bestand depends on the arguments of     *)
(* that call only: it is the outcome the same call has as the first call,  *)
(* whatever create_bestand calls came before it.                           *)
C11_NoCrossCallModeState == res = FreshOutcome

(* C12: when create_bestand or create_checksum ends, by return or by any   *)
(* error, no file handle that the call opened or was given is open.        *)
C12_HandleRelease ==
    res.op \in {"create_bestand", "create_checksum"} => handles = {}

\* create_bestand has ended, and it got as far as reading the informatieobject file
InferenceReached ==
    /\ res.op = "create_bestand"
    /\ src.d.choice["infile"] \in {"pad", "leesbaar", "schrijfbaar"}
    /\ src.d.choice["ids"] # "ongelijk"
    /\ pronominfo(CallOf(src.d.choice).fido, src.d.force, src.d.quiet).ok
    /\ src.d.choice["informatieobject"] \in {"pad", "leesbaar", "schrijfbaar"}
    /\ src.d.choice["inhoud"] # "geenXml"

\* the children called `name` of the <informatieobject> of a document; none when the
\* document holds another element
OfInformatieobject(root, name) ==
    IF Len(root.kids) > 0 /\ root.kids[1].tag = Tag(MDTO_NS, "informatieobject")
    THEN SelectSeq(root.kids[1].kids, LAMBDA c : c.tag = Tag(MDTO_NS, name))
    ELSE <<>>

\* the reference the document is to be given: its naam, and the pair of its first
\* identificatie element when it has one
ReferenceTo(root) ==
    LET ids == OfInformatieobject(root, "identificatie")
    IN Obj("VerwijzingGegevens",
           [verwijzingNaam |-> OfInformatieobject(root, "naam")[1].text,
            verwijzingIdentificatie |->
                IF Len(ids) = 0 THEN None
                ELSE Obj("IdentificatieGegevens",
                         [identificatieKenmerk |-> ids[1].kids[1].text,
                          identificatieBron |-> ids[1].kids[2].text])])

\* the documents in which every identificatie element has its two children
WholeIdentificaties(root) ==
    \A i \in 1..Len(OfInformatieobject(root, "identificatie")) :
        Len(OfInformatieobject(root, "identificatie")[i].kids) = 2

(* C13: detect_verwijzing returns the reference made of the document's     *)
(* naam and the pair of its first identificatie element (None when it has  *)
(* none); for a document without naam it exits in strict mode, and in      *)
(* non-strict mode it warns and create_bestand goes on without reference.  *)
C13_ReferenceInference ==
    InferenceReached =>
        \A root \in {CallOf(src.d.choice).tree} :
           IF Len(OfInformatieobject(root, "naam")) > 0
           THEN (WholeIdentificaties(root) /\ res.ok) =>
                    obj.f.isRepresentatieVan = ReferenceTo(root)
           ELSE IF src.d.force
                THEN res.ok /\ IsNone(obj.f.isRepresentatieVan)
                ELSE ~res.ok /\ res.err = "SystemExit"

\* why a Bestand without isRepresentatieVan may exist
InferenceFailedNonStrict ==
    /\ src.how = "create_bestand"
    /\ src.d.force
    /\ Len(OfInformatieobject(CallOf(src.d.choice).tree, "naam")) = 0

(* C14: a Bestand has isRepresentatieVan None only when create_bestand     *)
(* made it in non-strict mode after the inference of the reference failed; *)
(* for every other Bestand to_xml writes exactly one <isRepresentatieVan>. *)
C14_BackReferencePresence ==
    isinstance(obj, "Bestand") =>
        /\ IsNone(obj.f.isRepresentatieVan) => InferenceFailedNonStrict
        /\ (~InferenceFailedNonStrict /\ res.op = "to_xml" /\ out.ok) =>
               Len(Named(Body(out.val), "isRepresentatieVan")) = 1

\* the document with the text of its <naam> replaced by v
Renamed(root, v) ==
    [root EXCEPT !.kids[1].kids =
        [i \in 1..Len(root.kids[1].kids) |->
            IF root.kids[1].kids[i].tag.local = "naam"
            THEN [root.kids[1].kids[i] EXCEPT !.text = v]
            ELSE root.kids[1].kids[i]]]

\* the record was parsed from a valid document, and the one assignment made to it since
\* gave naam a new text
NaamAssigned ==
    /\ src.how = "from_file"
    /\ ValidDocument(src.d)
    /\ edits = 1
    /\ IsRecord(obj)
    /\ IsStr(obj.f.naam)
    /\ Truthy(obj.f.naam)
    /\ obj.f.naam # Named(Body(Document(src.d)), "naam")[1].text

(* C15: after from_file on a valid document and an assignment of a new     *)
(* text to naam, to_xml returns the document with the text of <naam>       *)
(* replaced and nothing else changed: same elements, same positions.       *)
C15_ParseMutateSerialize ==
    (NaamAssigned /\ res.op = "to_xml") =>
        /\ out.ok
        /\ tostring(out.val) = tostring(Renamed(Document(src.d), obj.f.naam))

\* the places in `elems` of the elements called f
PlacesOf(elems, f) == {i \in 1..Len(elems) : elems[i].tag.local = f}

\* the element to_xml writes for field f of the record when the field holds `item` alone
ElementOf(record, f, item) ==
    Named(Body(Record_to_xml([record EXCEPT !.f[f] = item]).r.val), f)[1]

(* C16: to_xml writes the items of a repeatable field that holds a list as *)
(* consecutive elements of the field's name, one per item, in list order   *)
(* (whenever the record serializes with the field holding one item         *)
(* alone); from_file makes the i-th item of the list of a repeated element *)
(* from its i-th occurrence.                                               *)
C16_ItemOrder ==
    /\ res.op = "to_xml" =>
          \A f \in Repeatable(TypeOf(obj)) :
              (/\ IsList(obj.f[f])
               /\ Len(obj.f[f].items) > 0
               /\ \A i \in 1..Len(obj.f[f].items) :
                     Record_to_xml([obj EXCEPT !.f[f] = obj.f[f].items[i]]).r.ok) =>
                  /\ out.ok
                  /\ Named(Body(out.val), f) =
                         [i \in 1..Len(obj.f[f].items) |-> ElementOf(obj, f, obj.f[f].items[i])]
                  /\ \A i, j \in PlacesOf(Body(out.val), f) :
                         \A k \in i..j : k \in PlacesOf(Body(out.val), f)
    /\ (res.op = "from_file" /\ res.ok) =>
          \A body \in {Body(Document(src.d))}, f \in Repeatable(src.d.type) :
              Len(Occurring(body, f)) > 1 =>
                  /\ IsList(obj.f[f])
                  /\ Len(obj.f[f].items) = Len(Occurring(body, f))
                  /\ \A i \in 1..Len(Occurring(body, f)) :
                         obj.f[f].items[i] =
                             xml_parser(Parsers(src.d.type)[f], Occurring(body, f)[i],
                                        _force, _quiet).val

\* a text that is a base-10 integer: an optional sign and digits
IsDecimal(text) ==
    /\ IsStr(text)
    /\ LET ds == IF Len(text.s) > 0 /\ text.s[1] \in {"-", "+"} THEN Tail(text.s) ELSE text.s
       IN Len(ds) > 0 /\ \A i \in 1..Len(ds) : IsDigit(ds[i])

\* the <omvang> elements of the bestand document that was read
OmvangRead == Named(Body(Document(src.d)), "omvang")

FidoAnswered(answers) ==
    /\ src.how = "create_bestand"
    /\ src.d.choice["fido"] \in answers
    /\ Variation(src) = 1

(* C18: when fido exits with a status other than 0 or reports no match,    *)
(* create_bestand in non-strict mode logs the warning, gets None for the   *)
(* format and returns a Bestand that to_xml writes without                 *)
(* <bestandsformaat>; in strict mode it ends in the exit of _warn.         *)
C18_FormatDetectionRecoverable ==
    FidoAnswered({"fout", "FAIL"}) =>
        /\ res.op = "create_bestand" =>
              IF src.d.force
              THEN res.ok /\ res.log = _log(src.d.quiet) /\ IsNone(obj.f.bestandsformaat)
              ELSE ~res.ok /\ res.err = "SystemExit"
        /\ (res.op = "to_xml" /\ edits = 0) =>
              out.ok /\ Len(Named(Body(out.val), "bestandsformaat")) = 0

(* C19: when fido is not installed, create_bestand exits in strict mode,   *)
(* and in non-strict mode it returns a Bestand with None for the format.   *)
C19_MissingFido ==
    (FidoAnswered({"ontbreekt"}) /\ res.op = "create_bestand") =>
        IF src.d.force
        THEN res.ok /\ IsNone(obj.f.bestandsformaat)
        ELSE ~res.ok /\ res.err = "SystemExit"

(* C20: the tree to_xml returns has the root <MDTO>, which declares the    *)
(* MDTO namespace and carries the schemaLocation attribute, with exactly   *)
(* one child, <informatieobject> or <bestand> by the kind of the record,   *)
(* and every field the record holds a value for has its elements there.    *)
C20_DocumentWrapper ==
    (res.op = "to_xml" /\ out.ok) =>
        /\ out.val.tag = Tag(NoNs, "MDTO")
        /\ MDTO_NS \in out.val.nsmap
        /\ out.val.schemaLocation = SCHEMA_LOCATION
        /\ Len(out.val.kids) = 1
        /\ out.val.kids[1].tag = Tag(NoNs, TypeOf(obj))
        /\ \A f \in Fields(TypeOf(obj)) :
              Truthy(obj.f[f]) => Len(Named(out.val.kids[1].kids, f)) > 0
        /\ \A i \in 1..Len(out.val.kids[1].kids) :
              out.val.kids[1].kids[i].tag.local \in Fields(TypeOf(obj))

\* to_xml has written a record of each kind of origin: here a Bestand made by create_bestand
C20_Witness ==
    /\ res.op = "to_xml"
    /\ out.ok
    /\ src.how = "create_bestand"
    /\ isinstance(obj, "Bestand")
    /\ out.val.kids[1].tag.local = "bestand"
    /\ Len(out.val.kids[1].kids) >= Cardinality(Bestand_required)

\* an identification argument of create_bestand as the list it stands for
AsList(v) == IF IsStr(v) THEN <<v>> ELSE v.items

\* create_bestand was called with nothing out of the ordinary but, possibly, the identifications
OrdinaryButIds == \A f \in CallPlaces \ {"ids"} : src.d.choice[f] = CallBase(f)

(* C21: create_bestand takes a str for identificatiekenmerken or           *)
(* identificatiebronnen as the list of that one string; with lists of      *)
(* different lengths it exits, whatever force is, and returns no Bestand;  *)
(* otherwise the Bestand holds one IdentificatieGegevens per position,     *)
(* the i-th made of the i-th kenmerk and the i-th bron.                    *)
C21_IdentificationPairing ==
    res.op = "create_bestand" =>
        LET kenmerken == AsList(CallOf(src.d.choice).identificatiekenmerken)
            bronnen == AsList(CallOf(src.d.choice).identificatiebronnen)
        IN IF Len(kenmerken) # Len(bronnen)
           THEN /\ ~res.ok
                /\ IsNone(obj)
                /\ OrdinaryButIds => res.err = "SystemExit"
           ELSE /\ OrdinaryButIds => res.ok
                /\ res.ok =>
                      obj.f.identificatie =
                          List([i \in 1..Len(kenmerken) |->
                                  Obj("IdentificatieGegevens",
                                      [identificatieKenmerk |-> kenmerken[i],
                                       identificatieBron |-> bronnen[i]])])

\* create_bestand has paired two kenmerken with two bronnen
C21_Witness ==
    /\ res.op = "create_bestand"
    /\ src.d.choice["ids"] = "lijsten"
    /\ res.ok
    /\ Len(obj.f.identificatie.items) = 2
    /\ obj.f.identificatie.items[2].f.identificatieBron = Str(Text1)

\* the elements of a document, at any depth, that the field tables hand to `parser`
RECURSIVE Decoded(_, _, _)
Decoded(elems, table, parser) ==
    Flatten([i \in 1..Len(elems) |->
        IF elems[i].tag.ns # MDTO_NS \/ elems[i].tag.local \notin DOMAIN table THEN <<>>
        ELSE IF table[elems[i].tag.local] = parser THEN <<elems[i]>>
        ELSE IF table[elems[i].tag.local] \in DOMAIN Composite
        THEN Decoded(elems[i].kids, Composite[table[elems[i].tag.local]].parsers, parser)
        ELSE <<>>])

\* the reference elements and the identification elements of the document that was read,
\* the latter with the identifications inside references
ReferencesRead ==
    Decoded(Body(Document(src.d)), Parsers(src.d.type), "parse_verwijzing")

IdentificationsRead ==
    Decoded(Body(Document(src.d)), Parsers(src.d.type), "parse_identificatie")
    \o Flatten([i \in 1..Len(ReferencesRead) |->
                  IF Len(ReferencesRead[i].kids) >= 2 THEN <<ReferencesRead[i].kids[2]>>
                  ELSE <<>>])

\* the children of e that are there carry the names `names`, position by position
TaggedAs(e, names) ==
    \A i \in 1..Len(e.kids) : i <= Len(names) => e.kids[i].tag = Tag(MDTO_NS, names[i])

\* a document of one of the two kinds was read
RecordRead == res.op = "from_file" /\ src.d.type \in {"informatieobject", "bestand"}

(* C22: from_file raises, and returns no record, for a document in which  *)
(* a child of a reference element is not verwijzingNaam then              *)
(* verwijzingIdentificatie, or a child of an identification element is    *)
(* not identificatieKenmerk then identificatieBron.                       *)
C22_ClosedReferenceSchema ==
    (/\ RecordRead
     /\ \/ \E i \in 1..Len(ReferencesRead) :
              ~TaggedAs(ReferencesRead[i], <<"verwijzingNaam", "verwijzingIdentificatie">>)
        \/ \E i \in 1..Len(IdentificationsRead) :
              ~TaggedAs(IdentificationsRead[i], <<"identificatieKenmerk", "identificatieBron">>))
    => (~res.ok /\ IsNone(obj))

(* C23: from_file raises, and returns no record, for a document with a    *)
(* reference element that has no child or more than two children.         *)
C23_ReferenceChildCount ==
    (/\ RecordRead
     /\ \E i \in 1..Len(ReferencesRead) : Len(ReferencesRead[i].kids) \notin {1, 2})
    => (~res.ok /\ IsNone(obj))

(* C24: to_xml returns a tree for every record that from_file returned,    *)
(* as long as nothing was assigned to the record in between.               *)
C24_ParsedSerializable ==
    (src.how = "from_file" /\ edits = 0 /\ res.op = "to_xml") => out.ok

\* the fields that may hold one bare value for a list, with the class of the value
BareClass ==
    [identificatie |-> "IdentificatieGegevens", trefwoord |-> "str", event |-> "EventGegevens",
     bevatOnderdeel |-> "VerwijzingGegevens", aanvullendeMetagegevens |-> "VerwijzingGegevens",
     betrokkene |-> "BetrokkeneGegevens", beperkingGebruik |-> "BeperkingGebruikGegevens"]

\* field f of the record holds a bare value
Bare(self, f) ==
    /\ f \in DOMAIN BareClass
    /\ IF BareClass[f] = "str" THEN IsStr(self.f[f]) ELSE isinstance(self.f[f], BareClass[f])

\* `after` is `self` but for bare values replaced by the list of that one value
FrameOf(self, after) ==
    /\ after.t = self.t
    /\ after.cls = self.cls
    /\ DOMAIN after.f = DOMAIN self.f
    /\ \A f \in DOMAIN self.f :
          \/ after.f[f] = self.f[f]
          \/ Bare(self, f) /\ after.f[f] = List(<<self.f[f]>>)

(* C25: a to_xml call on an Informatieobject or a Bestand leaves every    *)
(* field of the record as it was, nested records included, but for the    *)
(* fields identificatie, trefwoord, event, bevatOnderdeel,                *)
(* aanvullendeMetagegevens, betrokkene and beperkingGebruik: one of these *)
(* holding a bare value may hold the one-element list of that value       *)
(* afterwards, and does so after a call that returned a tree, unless the  *)
(* value is the empty string.                                             *)
C25_ToXmlFrame ==
    [][ToXml =>
          /\ FrameOf(obj, obj')
          /\ out'.ok =>
                \A f \in DOMAIN obj.f :
                    (Bare(obj, f) /\ Truthy(obj.f[f])) => obj'.f[f] = List(<<obj.f[f]>>)]_vars

\* to_xml has replaced the bare identificatie the constructor was given by a list
C25_Witness ==
    /\ Constructed
    /\ res.op = "to_xml"
    /\ src.d.choice["identificatie"] = "v"
    /\ IsList(obj.f.identificatie)
    /\ Len(obj.f.identificatie.items) = 1
    /\ isinstance(obj.f.identificatie.items[1], "IdentificatieGegevens")

(* C26: when to_xml has returned a tree, a second to_xml call on the      *)
(* record as the first call left it returns an equal tree.                *)
C26_ToXmlRepeatable ==
    (res.op = "to_xml" /\ out.ok) =>
        \A again \in {Record_to_xml(obj)} : again.r.ok /\ again.r = out

\* to_xml has returned a tree and left a list where the constructor was given a bare trefwoord
C26_Witness ==
    /\ Constructed
    /\ res.op = "to_xml"
    /\ out.ok
    /\ src.d.type = "informatieobject"
    /\ src.d.choice["trefwoord"] = "v"
    /\ obj.f.trefwoord = List(<<Str(Text2)>>)

\* the URLBestand of the Bestand in hand is None or a valid URL
UrlIsValid ==
    \/ IsNone(obj.f.URLBestand)
    \/ IsStr(obj.f.URLBestand) /\ validators_url(obj.f.URLBestand)

(* C27: with force not set, a Bestand that was constructed and then        *)
(* assigned to (naam, URLBestand), no operation having aborted, has a naam *)
(* of at most MAX_NAAM_LENGTH characters and a URLBestand that is None or  *)
(* a valid URL.                                                            *)
C27_StrictValidation ==
    (isinstance(obj, "Bestand") /\ ~_force) =>
        /\ IsStr(obj.f.naam) => Len(obj.f.naam.s) <= MAX_NAAM_LENGTH
        /\ UrlIsValid

\* create_checksum was called: its first statement is _process_file(file_or_filename)
ChecksumCalled == src.how = "create_checksum"

(* C29: _process_file opens a path for reading; returns a handle that is  *)
(* not writable as it is, opening nothing; closes a writable handle and   *)
(* returns a new handle, opened for reading, on the same file; and for a  *)
(* value that is neither raises TypeError and opens nothing.              *)
C29_ProcessFile ==
    ChecksumCalled =>
        LET arg == "file_or_filename"
            own == <<arg, "mdto">>
            given == <<arg, "caller">>
            infile == _process_file(src.file, arg, CallerHandles(src.file, arg))
        IN /\ handles = infile.open
           /\ res.ok = infile.ok
           /\ CASE src.file = "pad" ->
                      infile.ok /\ infile.handle = own /\ handles = {own}
                [] src.file = "leesbaar" ->
                      infile.ok /\ infile.handle = given /\ handles = {given}
                [] src.file = "schrijfbaar" ->
                      infile.ok /\ infile.handle = own /\ handles = {own}
                [] src.file = "getal" ->
                      ~infile.ok /\ res.err = "TypeError" /\ handles = {}
                [] src.file = "ontbreekt" ->
                      ~infile.ok /\ res.err = "FileNotFoundError" /\ handles = {}

\* create_checksum was given a writable handle: it is closed and a handle of mdto's is open
C29_Witness ==
    /\ ChecksumCalled
    /\ src.file = "schrijfbaar"
    /\ res.ok
    /\ handles = {<<"file_or_filename", "mdto">>}

\* the values that count as empty
EmptyValues == {None, Str(<<>>), List(<<>>)}

\* an element without children and without text
EmptyElement(e) == e.kids = <<>> /\ e.text \in {None, Str(<<>>)}

\* the type, in the words of the field tables, of the record in hand
TypeOfRecord == IF isinstance(obj, "Bestand") THEN "bestand" ELSE "informatieobject"

(* C28: when to_xml returns a tree, the tree holds no element for an       *)
(* optional field that is None, the empty string or the empty list, and    *)
(* holds exactly one naam element, an empty one, when naam is None or the  *)
(* empty string; and from_file gives None to a text field whose element in *)
(* the document has no text.                                               *)
C28_EmptyValues ==
    /\ (res.op = "to_xml" /\ out.ok) =>
          \A body \in {Body(out.val)} :
             /\ \A f \in Fields(TypeOfRecord) \ Required(TypeOfRecord) :
                   obj.f[f] \in EmptyValues => Named(body, f) = <<>>
             /\ obj.f.naam \in {None, Str(<<>>)} =>
                   /\ Len(Named(body, "naam")) = 1
                   /\ EmptyElement(Named(body, "naam")[1])
    /\ (RecordRead /\ res.ok) =>
          \A body \in {Body(Document(src.d))} :
             \A f \in Fields(src.d.type) :
                (/\ Parsers(src.d.type)[f] = "parse_text"
                 /\ Len(Named(body, f)) = 1
                 /\ EmptyElement(Named(body, f)[1]))
                => IsNone(obj.f[f])

\* to_xml has returned a tree for a record built with the empty string as omschrijving
C28_Witness ==
    /\ Constructed
    /\ res.op = "to_xml"
    /\ out.ok
    /\ src.d.type = "informatieobject"
    /\ src.d.choice["omschrijving"] = "leeg"
    /\ obj.f.omschrijving = Str(<<>>)
    /\ Named(Body(out.val), "omschrijving") = <<>>

====
